---- MODULE Spec2Model ----
(***************************************************************************)
(* Model of calendar/2023/05_IfYouGiveASeedAFertilizer/main.rs: the        *)
(* almanac range-remapping engine (apply_range_mapping, subtract_range,    *)
(* apply_map_to_ranges, apply_map_to_elements) and the two chain walks     *)
(* solve_problem_1 / solve_problem_2 driven by main.                       *)
(*                                                                         *)
(* All quantities are u64 in the source.  Every value the model builds is  *)
(* far below 2^64 and every subtraction of the source is guarded by the    *)
(* comparisons that precede it, so no operation wraps or underflows here.  *)
(***************************************************************************)
EXTENDS Integers, Sequences, FiniteSets, TLC

\* ------------------------------------------------------------------ bounds
\* the almanacs main is run on: largest start and from_start, largest length,
\* most seed ranges, most range mappings of the map of a one-map almanac
MaxStart == 1
MaxLength == 2
MaxRanges == 1
MaxMappings == 2
\* the direct calls of the range functions: largest start, largest length
MaxCallStart == 2
MaxCallLength == 3
\* the direct calls of the stage functions: largest element and from_start,
\* largest length, most range mappings of the map
MaxMapCallStart == 2
MaxMapCallLength == 2
MaxMapCallMappings == 3
\* the chain walks: the most stages the record of a walk holds
MaxApplied == 4
\* the repeated call of solve_problem_2: the most seed ranges
MaxOrderRanges == 2
\* parse_input: the most lines of the input
MaxLines == 4
\* parse_log_lines: the most lines of the log
MaxLogLines == 4
\* zero_counts_two: the most values, and the most full turns of one value
MaxValues == 2
MaxTurns == 2
\* zero_counts_two: the positions of the dial, and where it starts
DialSize == 100
DialStart == 50
\* get_largest_joltage: the longest bank
MaxBank == 4
\* follow_path: the most knots of the rope, the most directions of the path
MaxKnots == 3
MaxPath == 5
\* find_marker_index: the longest input, the largest window
MaxInput == 5
MaxWindow == 3
\* the forests: the most rows and the most columns
MaxForestRows == 3
MaxForestCols == 3
\* the cranes: the most stacks of a cargo, the most crates of a cargo, the
\* largest amount of an instruction, the most instructions
MaxStacks == 2
MaxCrates == 3
MaxAmount == 2
MaxInstructions == 2

\* ------------------------------------------------------------------ values
\* Option<T>: None is the empty sequence, Some(x) the one-element sequence
None == <<>>
Some(x) == <<x>>
is_some(o) == o # None
unwrap(o) == o[1]

max(a, b) == IF a >= b THEN a ELSE b
min(a, b) == IF a <= b THEN a ELSE b

\* struct AlmanacRange { start, length }
AlmanacRange(start, length) == [start |-> start, length |-> length]
\* struct AlmanacRangeMapping { from_start, to_start, length }
AlmanacRangeMapping(from_start, to_start, length) ==
    [from_start |-> from_start, to_start |-> to_start, length |-> length]
\* struct AlmanacMap { to, range_mappings }
AlmanacMap(to, range_mappings) == [to |-> to, range_mappings |-> range_mappings]

\* ------------------------------------------------- the range engine (pure)
\* apply_range_mapping with the overlap not clipped to the end of the mapping
apply_range_mapping_unclipped(source_range, mapping) ==
    LET is_disjoint ==
            \/ source_range.start >= mapping.from_start + mapping.length
            \/ source_range.start + source_range.length <= mapping.from_start
        overlap_start == max(source_range.start, mapping.from_start)
        overlap_end == source_range.start + source_range.length
        new_start == overlap_start - mapping.from_start + mapping.to_start
        new_length == overlap_end - overlap_start
    IN  IF is_disjoint THEN None ELSE Some(AlmanacRange(new_start, new_length))

\* fn apply_range_mapping(source_range, mapping) -> Option<AlmanacRange>
apply_range_mapping(source_range, mapping) ==
    LET is_disjoint ==
            \/ source_range.start >= mapping.from_start + mapping.length
            \/ source_range.start + source_range.length <= mapping.from_start
        overlap_start == max(source_range.start, mapping.from_start)
        overlap_end == min(source_range.start + source_range.length,
                           mapping.from_start + mapping.length)
        new_start == overlap_start - mapping.from_start + mapping.to_start
        new_length == overlap_end - overlap_start
    IN  IF is_disjoint THEN None ELSE Some(AlmanacRange(new_start, new_length))

\* subtract_range with the right remainder starting where the overlap starts
subtract_range_right_from_overlap_start(source_range, subtracting_range) ==
    LET overlap_start == max(source_range.start, subtracting_range.start)
        overlap_end == min(source_range.start + source_range.length,
                           subtracting_range.start + subtracting_range.length)
        left_side ==
            IF overlap_start > source_range.start
            THEN Some(AlmanacRange(source_range.start,
                                   overlap_start - source_range.start))
            ELSE None
        right_side ==
            IF overlap_end < source_range.start + source_range.length
            THEN Some(AlmanacRange(overlap_start,
                        source_range.start + source_range.length - overlap_end))
            ELSE None
    IN  <<left_side, right_side>>

\* fn subtract_range(source_range, subtracting_range)
\*   -> (Option<AlmanacRange>, Option<AlmanacRange>)
subtract_range(source_range, subtracting_range) ==
    LET overlap_start == max(source_range.start, subtracting_range.start)
        overlap_end == min(source_range.start + source_range.length,
                           subtracting_range.start + subtracting_range.length)
        left_side ==
            IF overlap_start > source_range.start
            THEN Some(AlmanacRange(source_range.start,
                                   overlap_start - source_range.start))
            ELSE None
        right_side ==
            IF overlap_end < source_range.start + source_range.length
            THEN Some(AlmanacRange(overlap_end,
                        source_range.start + source_range.length - overlap_end))
            ELSE None
    IN  <<left_side, right_side>>

\* the loop body carrying the whole range forward instead of its remainders
apply_mapping_to_range_keeping_range(range, range_mapping) ==
    LET mapped == apply_range_mapping(range, range_mapping)
    IN  IF is_some(mapped)
        THEN [mapped |-> mapped, unmapped |-> <<range>>]
        ELSE [mapped |-> <<>>, unmapped |-> <<range>>]

\* the body of `for range in &unmapped_ranges` for one range: what it pushes
\* to result (mapped) and to unmapped_for_this_mapping (unmapped)
apply_mapping_to_range(range, range_mapping) ==
    LET mapped == apply_range_mapping(range, range_mapping)
        mapped_portion == AlmanacRange(range_mapping.from_start, range_mapping.length)
        remainders == subtract_range(range, mapped_portion)
    IN  IF is_some(mapped)
        THEN [mapped |-> mapped, unmapped |-> remainders[1] \o remainders[2]]
        ELSE [mapped |-> <<>>, unmapped |-> <<range>>]

\* the inner loop `for range in &unmapped_ranges` of apply_map_to_ranges
RECURSIVE apply_mapping_to_ranges(_, _)
apply_mapping_to_ranges(unmapped_ranges, range_mapping) ==
    IF unmapped_ranges = <<>>
    THEN [mapped |-> <<>>, unmapped |-> <<>>]
    ELSE LET first == apply_mapping_to_range(Head(unmapped_ranges), range_mapping)
             rest == apply_mapping_to_ranges(Tail(unmapped_ranges), range_mapping)
         IN  [mapped |-> first.mapped \o rest.mapped,
              unmapped |-> first.unmapped \o rest.unmapped]

\* the outer loop without the final result.extend(unmapped_ranges)
RECURSIVE apply_mappings_to_ranges_no_extend(_, _, _)
apply_mappings_to_ranges_no_extend(result, unmapped_ranges, range_mappings) ==
    IF range_mappings = <<>>
    THEN result
    ELSE LET step == apply_mapping_to_ranges(unmapped_ranges, Head(range_mappings))
         IN  apply_mappings_to_ranges_no_extend(result \o step.mapped, step.unmapped,
                                                Tail(range_mappings))

\* the outer loop handing the mapped ranges on to the next range mappings too
RECURSIVE apply_mappings_to_ranges_remapping(_, _, _)
apply_mappings_to_ranges_remapping(result, unmapped_ranges, range_mappings) ==
    IF range_mappings = <<>>
    THEN result \o unmapped_ranges
    ELSE LET step == apply_mapping_to_ranges(unmapped_ranges, Head(range_mappings))
         IN  apply_mappings_to_ranges_remapping(result, step.mapped \o step.unmapped,
                                                Tail(range_mappings))

\* the outer loop `for range_mapping in &map.range_mappings`, then
\* result.extend(unmapped_ranges)
RECURSIVE apply_mappings_to_ranges(_, _, _)
apply_mappings_to_ranges(result, unmapped_ranges, range_mappings) ==
    IF range_mappings = <<>>
    THEN result \o unmapped_ranges
    ELSE LET step == apply_mapping_to_ranges(unmapped_ranges, Head(range_mappings))
         IN  apply_mappings_to_ranges(result \o step.mapped, step.unmapped,
                                      Tail(range_mappings))

\* fn apply_map_to_ranges(source_ranges, map) -> Vec<AlmanacRange>
apply_map_to_ranges(source_ranges, map) ==
    apply_mappings_to_ranges(<<>>, source_ranges, map.range_mappings)

\* the closure of `find` in apply_map_to_elements
matches_element(range, element) ==
    range.from_start <= element /\ element <= range.from_start + range.length

\* map.range_mappings.iter().find(...): the first matching range mapping
RECURSIVE find_matching_range(_, _)
find_matching_range(range_mappings, element) ==
    IF range_mappings = <<>> THEN None
    ELSE IF matches_element(Head(range_mappings), element)
         THEN Some(Head(range_mappings))
         ELSE find_matching_range(Tail(range_mappings), element)

\* the body of `for element in source_elements`: the value inserted
apply_map_to_element(element, map) ==
    LET matching_range == find_matching_range(map.range_mappings, element)
    IN  IF is_some(matching_range)
        THEN element - unwrap(matching_range).from_start
                     + unwrap(matching_range).to_start
        ELSE element

\* fn apply_map_to_elements(source_elements, map) -> HashSet<u64>
apply_map_to_elements(source_elements, map) ==
    { apply_map_to_element(element, map) : element \in source_elements }

\* Iterator::min over u64
iter_min(S) == IF S = {} THEN None ELSE Some(CHOOSE x \in S : \A y \in S : x <= y)

\* seed_numbers.windows(2).step_by(2).map(...): the pairs (1,2), (3,4), ...
RECURSIVE seeds_as_ranges_of(_)
seeds_as_ranges_of(seed_numbers) ==
    IF Len(seed_numbers) < 2 THEN <<>>
    ELSE <<AlmanacRange(seed_numbers[1], seed_numbers[2])>>
         \o seeds_as_ranges_of(SubSeq(seed_numbers, 3, Len(seed_numbers)))

\* parse_input: the Almanac built from a "seeds:" line and the maps read
parse_input(seed_numbers, maps_by_source) ==
    [seeds |-> { seed_numbers[k] : k \in 1..Len(seed_numbers) },
     seeds_as_ranges |-> seeds_as_ranges_of(seed_numbers),
     maps_by_source |-> maps_by_source]

\* ------------------------------------------------------------------- state
VARIABLES
    almanac,        \* main: the parsed Almanac
    pc,             \* position of main, or of the direct calls of the functions
    label,          \* solve_problem_1/2: label
    items,          \* solve_problem_1: items
    item_ranges,    \* solve_problem_2: item_ranges
    solution_1,     \* main: solve_problem_1's Option<u64>
    solution_2,     \* main: solve_problem_2's Option<u64>
    applied,        \* record: the labels whose maps the current walk has applied
    first_run,      \* record: the result of an earlier call of solve_problem_2
    source_range,   \* argument of apply_range_mapping / subtract_range
    mapping,        \* argument of apply_range_mapping
    mapped,         \* apply_range_mapping's return value
    remainders,     \* subtract_range's return value
    lines,          \* parse_input: lines
    line_number,    \* parse_input: how many lines the loop has consumed
    result,         \* parse_input: result
    current_map_from, \* parse_input: current_map_from
    log_lines,      \* parse_log_lines: lines
    lines_applied,  \* parse_log_lines: how many lines the loop has applied
    context,        \* parse_log_lines: context
    directory_entries, \* the DirectoryEntry values behind the DirectoryRefs
    log_result,     \* parse_log_lines: the Result it returns
    values,         \* zero_counts_two: values
    values_taken,   \* zero_counts_two: how many values the loop has taken
    count,          \* zero_counts_two: count
    dial,           \* zero_counts_two: dial
    bank,           \* get_largest_joltage: bank
    digits,         \* get_largest_joltage: digits
    digits_left,    \* get_largest_joltage: digits_left
    lower_bound,    \* get_largest_joltage: lower_bound
    joltage,        \* get_largest_joltage: result, as its decimal digits
    rope,           \* follow_path: rope
    path,           \* follow_path: path
    path_taken,     \* follow_path: how many directions the loop has taken
    visited,        \* follow_path: visited
    input_string,   \* find_marker_index: input_string
    window_size,    \* find_marker_index: window_size
    window_min,     \* find_marker_index: min
    window_max,     \* find_marker_index: max
    marker,         \* find_marker_index: the returned Result, None before the return
    forest,         \* compute_scenic_score, compute_visibility: forest
    pairs_taken,    \* compute_scenic_score: how many (row, col) pairs the loop has taken
    row_idx,        \* compute_visibility: row_idx
    col_idx,        \* compute_visibility: col_idx
    visible_trees,  \* count_visible_trees: the returned count, None before the return
    cargo,          \* apply_instructions_with_*: cargo
    instructions,   \* apply_instructions_with_*: instructions
    instructions_taken,\* apply_instructions_with_*: how many instructions the loop has taken
    crane_result,   \* apply_instructions_with_*: result
    with_stacks,    \* main: what apply_instructions_with_stacks returned, None before
    with_slices     \* main: what apply_instructions_with_slices returned, None before

vars == <<almanac, pc, label, items, item_ranges, solution_1, solution_2,
          applied, first_run, source_range, mapping, mapped, remainders,
          lines, line_number, result, current_map_from,
          log_lines, lines_applied, context, directory_entries, log_result,
          values, values_taken, count, dial,
          bank, digits, digits_left, lower_bound, joltage,
          rope, path, path_taken, visited,
          input_string, window_size, window_min, window_max, marker,
          forest, pairs_taken, row_idx, col_idx, visible_trees,
          cargo, instructions, instructions_taken, crane_result, with_stacks, with_slices>>

main_vars == <<almanac, label, items, item_ranges, solution_1, solution_2,
               applied, first_run>>
call_vars == <<source_range, mapping, mapped, remainders>>
parse_vars == <<lines, line_number, result, current_map_from>>
log_vars == <<log_lines, lines_applied, context, directory_entries, log_result>>
dial_vars == <<values, values_taken, count, dial>>
lobby_vars == <<bank, digits, digits_left, lower_bound, joltage>>
rope_vars == <<rope, path, path_taken, visited>>
tuning_vars == <<input_string, window_size, window_min, window_max, marker>>
forest_vars == <<forest, pairs_taken, row_idx, col_idx, visible_trees>>
crane_vars == <<cargo, instructions, instructions_taken, crane_result, with_stacks, with_slices>>
\* the state of the programs of the days modelled after these
later_days == <<lobby_vars, rope_vars, tuning_vars, forest_vars, crane_vars>>
\* the state of the programs of the other days
other_days == <<log_vars, dial_vars, later_days>>
\* the state of the almanac, log and dial programs
earlier_days == <<main_vars, call_vars, parse_vars, log_vars, dial_vars>>
\* the state a program of a later day leaves alone
not_lobby == <<earlier_days, rope_vars, tuning_vars, forest_vars, crane_vars>>
not_rope == <<earlier_days, lobby_vars, tuning_vars, forest_vars, crane_vars>>
not_tuning == <<earlier_days, lobby_vars, rope_vars, forest_vars, crane_vars>>
not_forest == <<earlier_days, lobby_vars, rope_vars, tuning_vars, crane_vars>>
not_crane == <<earlier_days, lobby_vars, rope_vars, tuning_vars, forest_vars>>
\* the state of the programs other than main and the direct calls
other_programs == <<parse_vars, other_days>>

\* ------------------------------------------------------------ input domains
\* all sequences over S of length at most n
RECURSIVE SeqsUpTo(_, _)
SeqsUpTo(S, n) ==
    IF n = 0 THEN {<<>>}
    ELSE LET shorter == SeqsUpTo(S, n - 1)
         IN  shorter \cup { Append(q, x) : q \in { t \in shorter : Len(t) = n - 1 }, x \in S }

RECURSIVE flatten(_)
flatten(ranges) ==
    IF ranges = <<>> THEN <<>>
    ELSE <<Head(ranges).start, Head(ranges).length>> \o flatten(Tail(ranges))

Ranges(max_start, min_length, max_length) ==
    { AlmanacRange(s, l) : s \in 0..max_start, l \in min_length..max_length }
RangeMappings(max_start, to_starts, max_length) ==
    { AlmanacRangeMapping(f, t, l) :
        f \in 0..max_start, t \in to_starts, l \in 0..max_length }
\* the destinations of the range mappings of an almanac: the two ends of the
\* starts
ToStarts == {0, MaxStart}

\* the labels of the maps: "seed" is the root of both chain walks
Labels == {"seed", "soil"}
Destinations == Labels \cup {"location"}

\* ---------------------------------------------- main: the two chain walks
\* the state of a run that makes no direct call
NoCall ==
    /\ source_range = AlmanacRange(0, 0)
    /\ mapping = AlmanacRangeMapping(0, 0, 0)
    /\ mapped = None
    /\ remainders = <<None, None>>

\* the state of a run that does not parse
NoParse ==
    /\ lines = <<>>
    /\ line_number = 0
    /\ result = parse_input(<<>>, <<>>)
    /\ current_map_from = None

\* ParsingContext::new()
ParsingContext(current_directory, directory_stack) ==
    [current_directory |-> current_directory, directory_stack |-> directory_stack]

\* the state of a run that does not parse a log
NoLog ==
    /\ log_lines = <<>>
    /\ lines_applied = 0
    /\ context = ParsingContext(None, <<>>)
    /\ directory_entries = <<>>
    /\ log_result = None

\* the state of a run that does not turn the dial
NoDial ==
    /\ values = <<>>
    /\ values_taken = 0
    /\ count = 0
    /\ dial = 0

\* the state of a run that does not call get_largest_joltage
NoLobby ==
    /\ bank = <<>>
    /\ digits = 0
    /\ digits_left = 0
    /\ lower_bound = 0
    /\ joltage = <<>>

\* the state of a run that does not run the program of rope_vars
NoRope ==
    /\ rope = [knots |-> <<>>]
    /\ path = <<>>
    /\ path_taken = 0
    /\ visited = {}

\* the state of a run that does not run the program of tuning_vars
NoTuning ==
    /\ input_string = <<>>
    /\ window_size = 0
    /\ window_min = 0
    /\ window_max = 0
    /\ marker = None

\* the state of a run that does not run the program of forest_vars
NoForest ==
    /\ forest = [rows |-> <<>>]
    /\ pairs_taken = 0
    /\ row_idx = 0
    /\ col_idx = 0
    /\ visible_trees = None

\* the state of a run that does not run the program of crane_vars
NoCrane ==
    /\ cargo = <<>>
    /\ instructions = <<>>
    /\ instructions_taken = 0
    /\ crane_result = <<>>
    /\ with_stacks = None
    /\ with_slices = None

NoLaterDay == NoLobby /\ NoRope /\ NoTuning /\ NoForest /\ NoCrane
NoOtherDay == NoLog /\ NoDial /\ NoLaterDay
NoOtherProgram == NoParse /\ NoOtherDay

\* the record of a walk that has applied no map and follows no earlier call
NoRecord ==
    /\ applied = <<>>
    /\ first_run = None

\* the record of the walk after it applied the map of its label; it holds the
\* first MaxApplied labels
record_applied == IF Len(applied) < MaxApplied THEN Append(applied, label) ELSE applied

\* main after parse_input, on entry to solve_problem_1
MainInit(parsed) ==
    /\ almanac = parsed
    /\ pc = "solve_problem_1"
    /\ label = "seed"
    /\ items = parsed.seeds
    /\ item_ranges = <<>>
    /\ solution_1 = None
    /\ solution_2 = None
    /\ NoRecord
    /\ NoOtherProgram
    /\ NoCall

\* an almanac with the single map seed-to-soil
InitStage ==
    \E seeds \in SeqsUpTo(Ranges(MaxStart, 1, MaxLength), MaxRanges),
       range_mappings \in SeqsUpTo(RangeMappings(MaxStart, ToStarts, MaxLength),
                                   MaxMappings) :
        MainInit(parse_input(flatten(seeds),
                             [l \in {"seed"} |-> AlmanacMap("soil", range_mappings)]))

\* an almanac with any maps over Labels of one range mapping each, cycles and
\* dangling names included
InitChain ==
    \E seeds \in SeqsUpTo(Ranges(MaxStart, 1, MaxLength), MaxRanges),
       sources \in SUBSET Labels :
        \E maps_by_source \in
               [sources -> { AlmanacMap(to, <<range_mapping>>) :
                               to \in Destinations,
                               range_mapping \in
                                   RangeMappings(MaxStart, ToStarts, MaxLength) }] :
            MainInit(parse_input(flatten(seeds), maps_by_source))

\* solve_problem_1: one iteration of `while let Some(map) = ...get(&label)`
Solve1Loop ==
    /\ pc = "solve_problem_1"
    /\ label \in DOMAIN almanac.maps_by_source
    /\ LET map == almanac.maps_by_source[label]
       IN  /\ items' = apply_map_to_elements(items, map)
           /\ label' = map.to
    /\ applied' = record_applied
    /\ UNCHANGED <<almanac, pc, item_ranges, solution_1, solution_2, first_run, call_vars, other_programs>>

\* solve_problem_1 returns items.iter().min(); main unwraps it and enters
\* solve_problem_2
Solve1Return ==
    /\ pc = "solve_problem_1"
    /\ label \notin DOMAIN almanac.maps_by_source
    /\ solution_1' = iter_min(items)
    /\ IF is_some(iter_min(items))
       THEN /\ pc' = "solve_problem_2"
            /\ item_ranges' = almanac.seeds_as_ranges
            /\ label' = "seed"
            /\ applied' = <<>>
       ELSE /\ pc' = "panicked"
            /\ UNCHANGED <<item_ranges, label, applied>>
    /\ UNCHANGED <<almanac, items, solution_2, first_run, call_vars, other_programs>>

\* the iteration without `label = map.to.clone()`
Solve2Loop_keeping_label ==
    /\ pc = "solve_problem_2"
    /\ label \in DOMAIN almanac.maps_by_source
    /\ item_ranges' = apply_map_to_ranges(item_ranges, almanac.maps_by_source[label])
    /\ applied' = record_applied
    /\ UNCHANGED <<almanac, pc, label, items, solution_1, solution_2, first_run, call_vars, other_programs>>

\* solve_problem_2: one iteration of `while let Some(map) = ...get(&label)`
Solve2Loop ==
    /\ pc = "solve_problem_2"
    /\ label \in DOMAIN almanac.maps_by_source
    /\ LET map == almanac.maps_by_source[label]
       IN  /\ item_ranges' = apply_map_to_ranges(item_ranges, map)
           /\ label' = map.to
    /\ applied' = record_applied
    /\ UNCHANGED <<almanac, pc, items, solution_1, solution_2, first_run, call_vars, other_programs>>

\* the return of the first start instead of the least one
Solve2Return_first_start ==
    /\ pc = "solve_problem_2"
    /\ label \notin DOMAIN almanac.maps_by_source
    /\ solution_2' = IF item_ranges = <<>> THEN None ELSE Some(item_ranges[1].start)
    /\ pc' = IF item_ranges = <<>> THEN "panicked" ELSE "done"
    /\ UNCHANGED <<almanac, label, items, item_ranges, solution_1, applied, first_run,
                   call_vars, other_programs>>

\* the return of a loop that may stop while its label still has a map
Solve2Return_early ==
    /\ pc = "solve_problem_2"
    /\ solution_2' = iter_min({ item_ranges[k].start : k \in 1..Len(item_ranges) })
    /\ pc' = IF item_ranges = <<>> THEN "panicked" ELSE "done"
    /\ UNCHANGED <<almanac, label, items, item_ranges, solution_1, applied, first_run,
                   call_vars, other_programs>>

\* the return of a loop that also stops at a label it has already applied
Solve2Return_at_revisit ==
    /\ pc = "solve_problem_2"
    /\ \/ label \notin DOMAIN almanac.maps_by_source
       \/ \E k \in 1..Len(applied) : applied[k] = label
    /\ solution_2' = iter_min({ item_ranges[k].start : k \in 1..Len(item_ranges) })
    /\ pc' = IF item_ranges = <<>> THEN "panicked" ELSE "done"
    /\ UNCHANGED <<almanac, label, items, item_ranges, solution_1, applied, first_run,
                   call_vars, other_programs>>

\* solve_problem_2 returns the least start; main unwraps it
Solve2Return ==
    /\ pc = "solve_problem_2"
    /\ label \notin DOMAIN almanac.maps_by_source
    /\ solution_2' = iter_min({ item_ranges[k].start : k \in 1..Len(item_ranges) })
    /\ pc' = IF item_ranges = <<>> THEN "panicked" ELSE "done"
    /\ UNCHANGED <<almanac, label, items, item_ranges, solution_1, applied, first_run,
                   call_vars, other_programs>>

\* the almanacs main is run on
Init == InitStage \/ InitChain

Next == Solve1Loop \/ Solve1Return \/ Solve2Loop \/ Solve2Return

Spec == Init /\ [][Next]_vars

\* ------------------------------------------------- the chain walks on their own
\* the labels of the maps of the walks, and their destinations
WalkLabels == {"seed", "soil", "fertilizer"}
WalkDestinations == WalkLabels \cup {"location"}

\* an almanac with any maps over WalkLabels, cycles and dangling names
\* included, each with the one range mapping that moves the first MaxLength
\* values by MaxStart; main walks it from solve_problem_1 on, or
\* solve_problem_2 is called alone
InitWalk ==
    \E seeds \in SeqsUpTo(Ranges(MaxStart, 1, MaxLength), MaxRanges),
       sources \in SUBSET WalkLabels,
       entry \in {"solve_problem_1", "solve_problem_2"} :
        \E maps_by_source \in
               [sources -> { AlmanacMap(to, <<AlmanacRangeMapping(0, MaxStart, MaxLength)>>) :
                               to \in WalkDestinations }] :
            /\ almanac = parse_input(flatten(seeds), maps_by_source)
            /\ pc = entry
            /\ label = "seed"
            /\ items = almanac.seeds
            /\ item_ranges = IF entry = "solve_problem_2"
                             THEN almanac.seeds_as_ranges ELSE <<>>
            /\ solution_1 = None
            /\ solution_2 = None
            /\ NoRecord
            /\ NoOtherProgram
            /\ NoCall

\* the program is one thread that always takes its next step
SpecWalk == InitWalk /\ [][Next]_vars /\ WF_vars(Next)

\* --------------------- solve_problem_2 called on an almanac and on the same
\* almanac with its seed ranges in another order
permutations(n) ==
    { p \in [1..n -> 1..n] : \A i, j \in 1..n : p[i] = p[j] => i = j }

\* an almanac with the map seed-to-soil of any one range mapping, and with or
\* without a map soil-to-location that moves MaxLength values to 0
InitOrder ==
    \E seeds \in SeqsUpTo(Ranges(MaxStart, 1, MaxLength), MaxOrderRanges),
       range_mapping \in RangeMappings(MaxStart, ToStarts, MaxLength),
       soil_from_start \in 0..MaxStart,
       sources \in {{"seed"}, {"seed", "soil"}} :
        /\ almanac = parse_input(flatten(seeds),
               [l \in sources |->
                   IF l = "seed" THEN AlmanacMap("soil", <<range_mapping>>)
                   ELSE AlmanacMap("location",
                            <<AlmanacRangeMapping(soil_from_start, 0, MaxLength)>>)])
        /\ pc = "solve_problem_2"
        /\ label = "seed"
        /\ items = almanac.seeds
        /\ item_ranges = almanac.seeds_as_ranges
        /\ solution_1 = None
        /\ solution_2 = None
        /\ NoRecord
        /\ NoOtherProgram
        /\ NoCall

\* the first call has returned: its result is kept, and solve_problem_2 is
\* entered on the almanac parsed from the seed ranges in another order
CallAgainPermuted ==
    /\ pc = "done"
    /\ first_run = None
    /\ first_run' = Some([solution |-> solution_2, item_ranges |-> item_ranges])
    /\ \E p \in permutations(Len(almanac.seeds_as_ranges)) :
           almanac' = parse_input(
               flatten([k \in 1..Len(almanac.seeds_as_ranges) |->
                           almanac.seeds_as_ranges[p[k]]]),
               almanac.maps_by_source)
    /\ item_ranges' = almanac'.seeds_as_ranges
    /\ label' = "seed"
    /\ applied' = <<>>
    /\ solution_2' = None
    /\ pc' = "solve_problem_2"
    /\ UNCHANGED <<items, solution_1, call_vars, other_programs>>

NextOrder == Solve2Loop \/ Solve2Return \/ CallAgainPermuted

SpecOrder == InitOrder /\ [][NextOrder]_vars

\* ---------------------------- the range functions called on their own
\* (as test_mapping and test_subtraction call them)
InitCall ==
    /\ source_range \in Ranges(MaxCallStart, 0, MaxCallLength)
    /\ mapping \in RangeMappings(MaxCallStart, 0..MaxCallStart, MaxCallLength)
    /\ mapped = None
    /\ remainders = <<None, None>>
    /\ pc = "apply_range_mapping"
    /\ almanac = parse_input(<<>>, <<>>)
    /\ label = "seed"
    /\ items = {}
    /\ item_ranges = <<>>
    /\ solution_1 = None
    /\ solution_2 = None
    /\ NoRecord
    /\ NoOtherProgram

\* the source span of mapping, as apply_map_to_ranges passes it to subtract_range
mapped_portion_of(range_mapping) ==
    AlmanacRange(range_mapping.from_start, range_mapping.length)

CallApplyRangeMapping ==
    /\ pc = "apply_range_mapping"
    /\ mapped' = apply_range_mapping(source_range, mapping)
    /\ pc' = "subtract_range"
    /\ UNCHANGED <<main_vars, other_programs, source_range, mapping, remainders>>

CallSubtractRange ==
    /\ pc = "subtract_range"
    /\ remainders' = subtract_range(source_range, mapped_portion_of(mapping))
    /\ pc' = "returned"
    /\ UNCHANGED <<main_vars, other_programs, source_range, mapping, mapped>>

NextCall == CallApplyRangeMapping \/ CallSubtractRange

SpecCall == InitCall /\ [][NextCall]_vars

\* ------------------------------ the stage functions called on their own
\* (as test_mapping calls apply_map_to_elements on a map it builds): one
\* element, the range of length 1 at that element, and one map
InitMapCall ==
    \E element \in 0..MaxMapCallStart,
       range_mappings \in
           SeqsUpTo(RangeMappings(MaxMapCallStart, 0..MaxMapCallStart, MaxMapCallLength),
                    MaxMapCallMappings) :
        /\ almanac = parse_input(<<element, 1>>,
                                 [l \in {"seed"} |-> AlmanacMap("soil", range_mappings)])
        /\ pc = "apply_map_to_elements"
        /\ label = "seed"
        /\ items = {element}
        /\ item_ranges = <<AlmanacRange(element, 1)>>
        /\ solution_1 = None
        /\ solution_2 = None
        /\ NoRecord
        /\ NoOtherProgram
        /\ NoCall

CallApplyMapToElements ==
    /\ pc = "apply_map_to_elements"
    /\ items' = apply_map_to_elements(items, almanac.maps_by_source[label])
    /\ pc' = "apply_map_to_ranges"
    /\ UNCHANGED <<almanac, label, item_ranges, solution_1, solution_2, applied,
                   first_run, call_vars, other_programs>>

CallApplyMapToRanges ==
    /\ pc = "apply_map_to_ranges"
    /\ item_ranges' = apply_map_to_ranges(item_ranges, almanac.maps_by_source[label])
    /\ pc' = "returned"
    /\ UNCHANGED <<almanac, label, items, solution_1, solution_2, applied,
                   first_run, call_vars, other_programs>>

NextMapCall == CallApplyMapToElements \/ CallApplyMapToRanges

SpecMapCall == InitMapCall /\ [][NextMapCall]_vars

\* ----------------------------------------------- parse_input, line by line
\* a line as the three regexes see it: "seeds:" followed by numbers, the
\* header "<from>-to-<to> map:", three numbers in the order of the text, or
\* anything else
Line(kind, from, to, numbers) ==
    [kind |-> kind, from |-> from, to |-> to, numbers |-> numbers]
SeedsLine(numbers) == Line("seeds", "", "", numbers)
MapLine(from, to) == Line("map", from, to, <<>>)
RangeLine(numbers) == Line("range", "", "", numbers)
OtherLine == Line("other", "", "", <<>>)

\* the lines of the inputs: those of test_parsing, the headers over their
\* names, and a line that no regex matches
InputLines ==
    {SeedsLine(<<1, 2, 3, 4>>), RangeLine(<<1, 2, 3>>), RangeLine(<<4, 5, 6>>), OtherLine}
        \cup { MapLine(from, to) : from \in {"a", "b"}, to \in {"b", "c"} }

\* the range mapping with to_start and from_start exchanged
range_mapping_of_exchanged(numbers) ==
    AlmanacRangeMapping(numbers[1], numbers[2], numbers[3])

\* MAP_RANGE_REGEX names the first number to_start, the second from_start and
\* the third length
range_mapping_of(numbers) ==
    AlmanacRangeMapping(numbers[2], numbers[1], numbers[3])

\* HashMap::insert: the value of an existing key is replaced
insert(maps_by_source, map_key, new_map) ==
    [l \in DOMAIN maps_by_source \cup {map_key} |->
        IF l = map_key THEN new_map ELSE maps_by_source[l]]

\* main outside a run of the walks and of the direct calls
NoMain ==
    /\ almanac = parse_input(<<>>, <<>>)
    /\ label = "seed"
    /\ items = {}
    /\ item_ranges = <<>>
    /\ solution_1 = None
    /\ solution_2 = None
    /\ NoRecord
    /\ NoCall

InitParse ==
    /\ lines \in SeqsUpTo(InputLines, MaxLines)
    /\ line_number = 0
    /\ result = parse_input(<<>>, <<>>)
    /\ current_map_from = None
    /\ pc = "parse_input"
    /\ NoMain
    /\ NoOtherDay

\* the line the loop `for line in lines` reads next
in_loop == pc = "parse_input" /\ line_number < Len(lines)
line == lines[line_number + 1]

\* SEEDS_REGEX matches
ParseSeedsLine ==
    /\ in_loop
    /\ line.kind = "seeds"
    /\ result' = parse_input(line.numbers, result.maps_by_source)
    /\ line_number' = line_number + 1
    /\ UNCHANGED <<pc, lines, current_map_from, main_vars, call_vars, other_days>>

\* MAP_REGEX matches
ParseMapLine ==
    /\ in_loop
    /\ line.kind = "map"
    /\ current_map_from' = Some(line.from)
    /\ result' = [result EXCEPT !.maps_by_source =
                      insert(@, line.from, AlmanacMap(line.to, <<>>))]
    /\ line_number' = line_number + 1
    /\ UNCHANGED <<pc, lines, main_vars, call_vars, other_days>>

\* MAP_RANGE_REGEX matches: the `?` returns the error when there is no
\* current map
ParseRangeLine ==
    /\ in_loop
    /\ line.kind = "range"
    /\ IF ~is_some(current_map_from)
          \/ unwrap(current_map_from) \notin DOMAIN result.maps_by_source
       THEN /\ pc' = "Err(ParsingError)"
            /\ UNCHANGED <<result, line_number>>
       ELSE /\ result' = [result EXCEPT
                   !.maps_by_source[unwrap(current_map_from)].range_mappings =
                       Append(@, range_mapping_of(line.numbers))]
            /\ line_number' = line_number + 1
            /\ pc' = pc
    /\ UNCHANGED <<lines, current_map_from, main_vars, call_vars, other_days>>

\* no regex matches: the line is skipped
ParseOtherLine ==
    /\ in_loop
    /\ line.kind = "other"
    /\ line_number' = line_number + 1
    /\ UNCHANGED <<pc, lines, result, current_map_from, main_vars, call_vars, other_days>>

\* Ok(result)
ParseReturn ==
    /\ pc = "parse_input"
    /\ line_number = Len(lines)
    /\ almanac' = result
    /\ pc' = "Ok(result)"
    /\ UNCHANGED <<label, items, item_ranges, solution_1, solution_2, applied, first_run,
                   parse_vars, call_vars, other_days>>

NextParse ==
    ParseSeedsLine \/ ParseMapLine \/ ParseRangeLine \/ ParseOtherLine \/ ParseReturn

SpecParse == InitParse /\ [][NextParse]_vars

\* =================== 2022/07 NoSpaceLeftOnDevice: LogParser::parse_log_lines
\* a line of the log: its text, the rules whose (unanchored) regex finds a
\* match in it, and what the named groups capture
LogLine(text, matches, dirname, filename, filesize) ==
    [text |-> text, matches |-> matches, dirname |-> dirname,
     filename |-> filename, filesize |-> filesize]

\* "$ cd .." is matched by CD_UP and by CD_INTO, whose dirname takes ".."
LogLines ==
    { LogLine("$ cd ..", {"CdUpRule", "CdIntoRule"}, "..", "", ""),
      LogLine("$ cd /", {"CdIntoRule"}, "/", "", ""),
      LogLine("$ cd a", {"CdIntoRule"}, "a", "", ""),
      LogLine("$ ls", {"LsRule"}, "", "", ""),
      LogLine("dir a", {"DirEntryRule"}, "a", "", ""),
      LogLine("1 f", {"FileEntryRule"}, "", "f", "1"),
      LogLine("18446744073709551616 f", {"FileEntryRule"}, "", "f", "18446744073709551616"),
      LogLine("?", {}, "", "", "") }

\* filesize.parse::<usize>(): 18446744073709551616 = 2^64 does not fit
parse_usize(filesize) ==
    IF filesize = "1" THEN Some(1) ELSE None

\* the rules in the order CdInto, CdUp, Ls, DirEntry, FileEntry
rules_cd_into_first == <<"CdIntoRule", "CdUpRule", "LsRule", "DirEntryRule", "FileEntryRule">>

\* LogParser::default: the rules in their order
rules == <<"CdUpRule", "CdIntoRule", "LsRule", "DirEntryRule", "FileEntryRule">>

\* self.rules.iter().filter(|rule| rule.matches(&line)).next()
matching_rule(log_line) ==
    LET matching == { k \in 1..Len(rules) : rules[k] \in log_line.matches }
    IN  IF matching = {} THEN None
        ELSE Some(rules[CHOOSE k \in matching : \A j \in matching : k <= j])

\* DirectoryEntry::new()
DirectoryEntry == [files |-> <<>>, directories |-> <<>>]

\* HashMap entry(key).or_insert(value)
or_insert(map, key, value) ==
    IF key \in DOMAIN map THEN map
    ELSE [k \in DOMAIN map \cup {key} |-> IF k = key THEN value ELSE map[k]]

Ok(value) == [error |-> "", value |-> Some(value)]
Err(error) == [error |-> error, value |-> None]

InitLog ==
    /\ log_lines \in SeqsUpTo(LogLines, MaxLogLines)
    /\ lines_applied = 0
    /\ context = ParsingContext(None, <<>>)
    /\ directory_entries = <<>>
    /\ log_result = None
    /\ pc = "parse_log_lines"
    /\ NoMain
    /\ NoParse
    /\ NoDial
    /\ NoLaterDay

\* the line the loop `for line_result in lines` reads next, and its rule
log_line == log_lines[lines_applied + 1]
applying(rule) ==
    /\ pc = "parse_log_lines"
    /\ lines_applied < Len(log_lines)
    /\ matching_rule(log_line) = Some(rule)

\* `?` on an Err: parse_log_lines returns it
ReturnErr(error) ==
    /\ log_result' = Some(Err(error))
    /\ pc' = "returned"
    /\ UNCHANGED <<lines_applied, context, directory_entries>>

\* no rule matches: ok_or(ParsingError::UnrecognizedSyntax)?
UnrecognizedSyntax ==
    /\ pc = "parse_log_lines"
    /\ lines_applied < Len(log_lines)
    /\ matching_rule(log_line) = None
    /\ ReturnErr("UnrecognizedSyntax")
    /\ UNCHANGED <<log_lines, main_vars, call_vars, parse_vars, dial_vars, later_days>>

\* CdUpRule::apply_to
ApplyCdUp ==
    /\ applying("CdUpRule")
    /\ IF context.directory_stack = <<>>
       THEN ReturnErr("NoParentDirectory")
       ELSE /\ context' = ParsingContext(
                   Some(context.directory_stack[Len(context.directory_stack)]),
                   SubSeq(context.directory_stack, 1, Len(context.directory_stack) - 1))
            /\ lines_applied' = lines_applied + 1
            /\ UNCHANGED <<pc, log_result, directory_entries>>
    /\ UNCHANGED <<log_lines, main_vars, call_vars, parse_vars, dial_vars, later_days>>

\* CdIntoRule::apply_to
ApplyCdInto ==
    /\ applying("CdIntoRule")
    /\ LET new_ref == Len(directory_entries) + 1 IN
       IF is_some(context.current_directory)
       THEN LET directory == unwrap(context.current_directory)
                known == log_line.dirname \in DOMAIN directory_entries[directory].directories
                into_directory ==
                    IF known THEN directory_entries[directory].directories[log_line.dirname]
                    ELSE new_ref
            IN  /\ directory_entries' =
                       IF known THEN directory_entries
                       ELSE Append([directory_entries EXCEPT ![directory].directories =
                                       or_insert(@, log_line.dirname, new_ref)],
                                   DirectoryEntry)
                /\ context' = ParsingContext(Some(into_directory),
                                             Append(context.directory_stack, directory))
       ELSE /\ directory_entries' = Append(directory_entries, DirectoryEntry)
            /\ context' = ParsingContext(Some(new_ref), context.directory_stack)
    /\ lines_applied' = lines_applied + 1
    /\ UNCHANGED <<pc, log_result, log_lines, main_vars, call_vars, parse_vars, dial_vars, later_days>>

\* LsRule::apply_to
ApplyLs ==
    /\ applying("LsRule")
    /\ lines_applied' = lines_applied + 1
    /\ UNCHANGED <<pc, log_result, context, directory_entries, log_lines,
                   main_vars, call_vars, parse_vars, dial_vars, later_days>>

\* DirEntryRule::apply_to
ApplyDirEntry ==
    /\ applying("DirEntryRule")
    /\ IF ~is_some(context.current_directory)
       THEN ReturnErr("NoCurrentDirectory")
       ELSE LET directory == unwrap(context.current_directory)
                known == log_line.dirname \in DOMAIN directory_entries[directory].directories
            IN  /\ directory_entries' =
                       IF known THEN directory_entries
                       ELSE Append([directory_entries EXCEPT ![directory].directories =
                                       or_insert(@, log_line.dirname,
                                                 Len(directory_entries) + 1)],
                                   DirectoryEntry)
                /\ lines_applied' = lines_applied + 1
                /\ UNCHANGED <<pc, log_result, context>>
    /\ UNCHANGED <<log_lines, main_vars, call_vars, parse_vars, dial_vars, later_days>>

\* FileEntryRule::apply_to
ApplyFileEntry ==
    /\ applying("FileEntryRule")
    /\ IF ~is_some(parse_usize(log_line.filesize))
       THEN ReturnErr("InvalidFileSize")
       ELSE IF ~is_some(context.current_directory)
       THEN ReturnErr("NoCurrentDirectory")
       ELSE /\ directory_entries' =
                   [directory_entries EXCEPT ![unwrap(context.current_directory)].files =
                       or_insert(@, log_line.filename, unwrap(parse_usize(log_line.filesize)))]
            /\ lines_applied' = lines_applied + 1
            /\ UNCHANGED <<pc, log_result, context>>
    /\ UNCHANGED <<log_lines, main_vars, call_vars, parse_vars, dial_vars, later_days>>

\* after the loop: the first directory of the stack, or the current one
ParseLogReturn ==
    /\ pc = "parse_log_lines"
    /\ lines_applied = Len(log_lines)
    /\ log_result' =
           Some(IF context.directory_stack # <<>> THEN Ok(context.directory_stack[1])
                ELSE IF is_some(context.current_directory)
                     THEN Ok(unwrap(context.current_directory))
                     ELSE Err("NoRootDirectory"))
    /\ pc' = "returned"
    /\ UNCHANGED <<lines_applied, context, directory_entries, log_lines,
                   main_vars, call_vars, parse_vars, dial_vars, later_days>>

NextLog ==
    \/ UnrecognizedSyntax
    \/ ApplyCdUp
    \/ ApplyCdInto
    \/ ApplyLs
    \/ ApplyDirEntry
    \/ ApplyFileEntry
    \/ ParseLogReturn

SpecLog == InitLog /\ [][NextLog]_vars

\* ========================== 2025/01 SecretEntrance: zero_counts_two
abs(a) == IF a < 0 THEN 0 - a ELSE a
\* i32 `/`: the quotient rounded toward zero
div(a, b) == IF a >= 0 THEN a \div b ELSE 0 - ((0 - a) \div b)
\* i32 `%`: the remainder has the sign of a
rem(a, b) == a - b * div(a, b)
\* modulus
modulus(a, b) == rem(rem(a, b) + b, b)

\* overflow without the test `dial != 0`
overflow_from_zero_too(dial_before, unclamped_rotation) ==
    IF unclamped_rotation <= 0 \/ unclamped_rotation >= DialSize THEN 1 ELSE 0

\* (dial != 0 && (unclamped_rotation <= 0 || unclamped_rotation >= 100)) as i32
overflow(dial_before, unclamped_rotation) ==
    IF dial_before # 0 /\ (unclamped_rotation <= 0 \/ unclamped_rotation >= DialSize)
    THEN 1 ELSE 0

\* the rotations: up to MaxTurns full turns and a rest, to the right (positive)
\* or to the left
Rotations ==
    { sign * (turns * DialSize + rest) :
        sign \in {-1, 1}, turns \in 0..MaxTurns,
        rest \in {0, 1, DialStart, DialSize - 1} }

InitDial ==
    /\ values \in SeqsUpTo(Rotations, MaxValues)
    /\ values_taken = 0
    /\ count = 0
    /\ dial = DialStart
    /\ pc = "zero_counts_two"
    /\ NoMain
    /\ NoParse
    /\ NoLog
    /\ NoLaterDay

\* one iteration of `for value in values.into_iter()`
TurnDial ==
    /\ pc = "zero_counts_two"
    /\ values_taken < Len(values)
    /\ LET value == values[values_taken + 1]
           loops_this_time == abs(div(value, DialSize))
           actual_rotation == rem(value, DialSize)
           unclamped_rotation == dial + actual_rotation
       IN  /\ dial' = modulus(unclamped_rotation, DialSize)
           /\ count' = count + loops_this_time + overflow(dial, unclamped_rotation)
    /\ values_taken' = values_taken + 1
    /\ UNCHANGED <<pc, values, main_vars, call_vars, parse_vars, log_vars, later_days>>

\* zero_counts_two returns count
ZeroCountsTwoReturn ==
    /\ pc = "zero_counts_two"
    /\ values_taken = Len(values)
    /\ pc' = "returned"
    /\ UNCHANGED <<dial_vars, main_vars, call_vars, parse_vars, log_vars, later_days>>

NextDial == TurnDial \/ ZeroCountsTwoReturn

SpecDial == InitDial /\ [][NextDial]_vars

\* ============================== 2025/03 Lobby: get_largest_joltage
\* A u64 is kept as its decimal digits, most significant first, so that the
\* numbers of twenty digits, where u64 ends, can be told apart.
\* u64::MAX = 18446744073709551615
U64Max == <<1, 8, 4, 4, 6, 7, 4, 4, 0, 7, 3, 7, 0, 9, 5, 5, 1, 6, 1, 5>>

zeros(n) == [k \in 1..n |-> 0]
RECURSIVE without_leading_zeros(_)
without_leading_zeros(number) ==
    IF number # <<>> /\ Head(number) = 0 THEN without_leading_zeros(Tail(number))
    ELSE number
\* a < b for numbers of the same count of digits
RECURSIVE less(_, _)
less(a, b) ==
    IF a = <<>> THEN FALSE
    ELSE IF Head(a) # Head(b) THEN Head(a) < Head(b)
    ELSE less(Tail(a), Tail(b))
\* the number does not fit a u64
exceeds_u64(number) ==
    LET n == without_leading_zeros(number)
    IN  \/ Len(n) > Len(U64Max)
        \/ Len(n) = Len(U64Max) /\ less(U64Max, n)

\* max_by_key keeping the first of the largest items
max_by_key_first(indexed) ==
    LET largest == { k \in 1..Len(indexed) :
                       \A j \in 1..Len(indexed) : indexed[j][2] <= indexed[k][2] }
    IN  indexed[CHOOSE k \in largest : \A j \in largest : k <= j]

\* Iterator::max_by_key: of several largest items the last one is returned
max_by_key(indexed) ==
    LET largest == { k \in 1..Len(indexed) :
                       \A j \in 1..Len(indexed) : indexed[j][2] <= indexed[k][2] }
    IN  indexed[CHOOSE k \in largest : \A j \in largest : j <= k]

\* slice.iter().enumerate().rev(): the pairs (index from 0, item), last first
enumerate_rev(slice) ==
    [k \in 1..Len(slice) |-> <<Len(slice) - k, slice[Len(slice) - k + 1]>>]

\* the digits of the banks: those of the tests
BankDigits == {1, 2, 8, 9}
\* the banks of up to MaxBank digits with every count of digits to choose, and
\* banks as long as u64::MAX, and one digit longer, with all or all but one
ShortCalls ==
    { <<b, d>> : b \in SeqsUpTo(BankDigits, MaxBank) \ {<<>>}, d \in 1..MaxBank }
LongBanks ==
    { [k \in 1..Len(U64Max) |-> 1], [k \in 1..Len(U64Max) |-> 9],
      [k \in 1..Len(U64Max) |-> IF k = 1 THEN 1 ELSE 9],
      [k \in 1..(Len(U64Max) + 1) |-> 1] }
LongCalls == { <<b, d>> : b \in LongBanks, d \in {Len(U64Max) - 1, Len(U64Max), Len(U64Max) + 1} }

InitLobby ==
    /\ \E call \in ShortCalls \cup LongCalls :
           /\ call[2] <= Len(call[1])
           /\ bank = call[1]
           /\ digits = call[2]
    /\ digits_left = digits
    /\ lower_bound = 0
    /\ joltage = zeros(digits)
    /\ pc = "get_largest_joltage"
    /\ NoMain
    /\ NoParse
    /\ NoLog
    /\ NoDial
    /\ NoRope
    /\ NoTuning
    /\ NoForest
    /\ NoCrane

\* one iteration of `while digits_left > 0`.  10_u64.pow, the product and the
\* sum overflow when they exceed u64::MAX: a debug build panics, a release
\* build goes on with the value modulo 2^64
PickDigit ==
    /\ pc = "get_largest_joltage"
    /\ digits_left > 0
    /\ LET upper_bound == Len(bank) - (digits_left - 1)
           found == max_by_key(enumerate_rev(SubSeq(bank, lower_bound + 1, upper_bound)))
           max_digit_index == found[1]
           max_digit_available == found[2]
           power == <<1>> \o zeros(digits_left - 1)
           product == <<max_digit_available>> \o zeros(digits_left - 1)
           sum == [joltage EXCEPT ![digits - digits_left + 1] = max_digit_available]
       IN  IF exceeds_u64(power) \/ exceeds_u64(product) \/ exceeds_u64(sum)
           THEN /\ pc' \in {"panicked", "wrapped"}
                /\ UNCHANGED <<joltage, lower_bound, digits_left>>
           ELSE /\ joltage' = sum
                /\ lower_bound' = lower_bound + max_digit_index + 1
                /\ digits_left' = digits_left - 1
                /\ pc' = pc
    /\ UNCHANGED <<bank, digits, not_lobby>>

\* return result
JoltageReturn ==
    /\ pc = "get_largest_joltage"
    /\ digits_left = 0
    /\ pc' = "returned"
    /\ UNCHANGED <<lobby_vars, not_lobby>>

NextLobby == PickDigit \/ JoltageReturn

SpecLobby == InitLobby /\ [][NextLobby]_vars

\* ================================== 2022/09 RopeBridge: follow_path, advance
Point(x, y) == [x |-> x, y |-> y]
\* Point + Point and Point - Point
add(self, rhs) == Point(self.x + rhs.x, self.y + rhs.y)
sub(self, rhs) == Point(self.x - rhs.x, self.y - rhs.y)

Directions == {"Left", "Right", "Up", "Down"}
\* Direction::value
direction_value(direction) ==
    CASE direction = "Left" -> Point(-1, 0)
      [] direction = "Right" -> Point(1, 0)
      [] direction = "Up" -> Point(0, 1)
      [] direction = "Down" -> Point(0, -1)

\* clamp with the bounds the wrong way round: min(max(num, max), min)
clamp_bounds_exchanged(num, lowest, highest) == min(max(num, highest), lowest)
\* clamp(num, min, max)
clamp(num, lowest, highest) == max(min(num, highest), lowest)

\* Rope::new(knots_count): every knot on the origin
new_rope(knots_count) == [knots |-> [k \in 1..knots_count |-> Point(0, 0)]]
\* Rope::tail
tail(r) == r.knots[Len(r.knots)]

\* the loop `for next in iter` of advance: each knot after `current` follows
\* the knot before it, which has already moved
RECURSIVE follow(_, _)
follow(current, rest) ==
    IF rest = <<>> THEN <<>>
    ELSE LET next == Head(rest)
             diff == sub(current, next)
             normalized_diff == Point(clamp(diff.x, -1, 1), clamp(diff.y, -1, 1))
             moved == IF abs(diff.x) > 1 \/ abs(diff.y) > 1
                      THEN add(next, normalized_diff)
                      ELSE next
         IN  <<moved>> \o follow(moved, Tail(rest))

\* advance(rope, direction): the head steps, the other knots follow in order
advance(r, direction) ==
    LET head == add(r.knots[1], direction_value(direction))
    IN  [knots |-> <<head>> \o follow(head, Tail(r.knots))]

\* follow_path is called on a new rope of 2..MaxKnots knots and on a path of
\* at most MaxPath directions
InitRope ==
    /\ \E knots_count \in 2..MaxKnots : rope = new_rope(knots_count)
    /\ path \in SeqsUpTo(Directions, MaxPath)
    /\ path_taken = 0
    /\ visited = {}
    /\ pc = "called"
    /\ NoMain
    /\ NoParse
    /\ NoLog
    /\ NoDial
    /\ NoLobby
    /\ NoTuning
    /\ NoForest
    /\ NoCrane

\* follow_path up to its loop: the tail's cell is the first one visited
FollowPathEnter ==
    /\ pc = "called"
    /\ visited' = visited \cup {tail(rope)}
    /\ pc' = "follow_path"
    /\ UNCHANGED <<rope, path, path_taken, not_rope>>

\* one iteration of `for direction in path.iter()`
FollowPathStep ==
    /\ pc = "follow_path"
    /\ path_taken < Len(path)
    /\ rope' = advance(rope, path[path_taken + 1])
    /\ visited' = visited \cup {tail(rope')}
    /\ path_taken' = path_taken + 1
    /\ UNCHANGED <<pc, path, not_rope>>

\* the loop is over: follow_path returns visited
FollowPathReturn ==
    /\ pc = "follow_path"
    /\ path_taken = Len(path)
    /\ pc' = "returned"
    /\ UNCHANGED <<rope_vars, not_rope>>

NextRope == FollowPathEnter \/ FollowPathStep \/ FollowPathReturn

SpecRope == InitRope /\ [][NextRope]_vars

\* ============================ 2022/06 TuningTrouble: find_marker_index
\* the characters of the input strings: one byte each
Chars == {"a", "b", "c"}

\* are_chars_unique_trivial(window): no character comes back later in the
\* window
are_chars_unique_trivial(window) ==
    \A current \in 1..Len(window) :
        \A next \in (current + 1)..Len(window) : window[next] # window[current]

\* find_marker_index is called on a string of at most MaxInput characters and
\* a window size of at most MaxWindow
InitTuning ==
    /\ input_string \in SeqsUpTo(Chars, MaxInput)
    /\ window_size \in 0..MaxWindow
    /\ window_min = 0
    /\ window_max = window_size
    /\ marker = None
    /\ pc = "find_marker_index"
    /\ NoMain
    /\ NoParse
    /\ NoLog
    /\ NoDial
    /\ NoLobby
    /\ NoRope
    /\ NoForest
    /\ NoCrane

\* &input_string[min..max]
window_at(s, from, to) == SubSeq(s, from + 1, to)

\* an iteration of `while max < input_string.len()` on a window with a
\* repeated character
SlideWindow ==
    /\ pc = "find_marker_index"
    /\ window_max < Len(input_string)
    /\ ~are_chars_unique_trivial(window_at(input_string, window_min, window_max))
    /\ window_min' = window_min + 1
    /\ window_max' = window_max + 1
    /\ UNCHANGED <<pc, input_string, window_size, marker, not_tuning>>

\* an iteration on a window of distinct characters: return Ok(max)
ReturnMarker ==
    /\ pc = "find_marker_index"
    /\ window_max < Len(input_string)
    /\ are_chars_unique_trivial(window_at(input_string, window_min, window_max))
    /\ marker' = Some(Ok(window_max))
    /\ pc' = "returned"
    /\ UNCHANGED <<input_string, window_size, window_min, window_max, not_tuning>>

\* the loop is over: Err(Error::MarkerNotFound)
ReturnMarkerNotFound ==
    /\ pc = "find_marker_index"
    /\ ~(window_max < Len(input_string))
    /\ marker' = Some(Err("MarkerNotFound"))
    /\ pc' = "returned"
    /\ UNCHANGED <<input_string, window_size, window_min, window_max, not_tuning>>

NextTuning == SlideWindow \/ ReturnMarker \/ ReturnMarkerNotFound

SpecTuning == InitTuning /\ [][NextTuning]_vars

\* ========== 2022/08 TreetopTreeHouse: compute_scenic_score, compute_visibility
TreeVisibility == {"North", "South", "West", "East"}
\* Tree::new(height)
new_tree(tree_height) ==
    [height |-> tree_height, visibility |-> TreeVisibility, scenic_score |-> 0]
\* the heights of the trees
TreeHeights == {1, 2}

\* Forest::height and Forest::width
height(f) == Len(f.rows)
width(f) == IF Len(f.rows) >= 1 THEN Len(f.rows[1]) ELSE 0

\* Iterator::rev and Iterator::skip
rev(sequence) == [k \in 1..Len(sequence) |-> sequence[Len(sequence) - k + 1]]
skip(sequence, n) == SubSeq(sequence, n + 1, Len(sequence))

\* Forest::iter_row and Forest::iter_col, as the cells <<row, col>> they yield
iter_row(f, row) == [k \in 1..Len(f.rows[row + 1]) |-> <<row, k - 1>>]
iter_col(f, col) == [k \in 1..Len(f.rows) |-> <<k - 1, col>>]
\* the tree of a cell
tree_at(f, cell) == f.rows[cell[1] + 1][cell[2] + 1]

\* Forest::left_of, right_of, top_of, bottom_of
left_of(f, row, col) ==
    LET column_from_right == width(f) - col - 1
    IN  skip(rev(iter_row(f, row)), column_from_right + 1)
right_of(f, row, col) == skip(iter_row(f, row), col + 1)
top_of(f, row, col) ==
    LET row_from_bottom == height(f) - row - 1
    IN  skip(rev(iter_col(f, col)), row_from_bottom + 1)
bottom_of(f, row, col) == skip(iter_col(f, col), row + 1)

\* count_visible_trees_from(trees, source_height): fold_while stops after the
\* first tree that is not shorter than the source
RECURSIVE count_visible_trees_from(_, _, _)
count_visible_trees_from(f, trees, source_height) ==
    IF trees = <<>> THEN 0
    ELSE IF tree_at(f, Head(trees)).height < source_height
         THEN count_visible_trees_from(f, Tail(trees), source_height) + 1
         ELSE 1

\* a rectangular forest as parse_input_lines builds it from the heights of
\* its rows
forest_of(heights) ==
    [rows |-> [r \in 1..Len(heights) |->
                 [c \in 1..Len(heights[r]) |-> new_tree(heights[r][c])]]]
\* the forest is any rectangular forest of up to MaxForestRows rows and
\* MaxForestCols columns
AnyForest ==
    \E h \in 1..MaxForestRows, w \in 1..MaxForestCols :
        \E heights \in [1..h -> [1..w -> TreeHeights]] :
            forest = forest_of(heights)

InitScenic ==
    /\ AnyForest
    /\ pairs_taken = 0
    /\ row_idx = 0
    /\ col_idx = 0
    /\ visible_trees = None
    /\ pc = "compute_scenic_score"
    /\ NoMain
    /\ NoParse
    /\ NoLog
    /\ NoDial
    /\ NoLobby
    /\ NoRope
    /\ NoTuning
    /\ NoCrane

\* the pairs of cartesian_product(0..forest.height(), 0..forest.height())
score_pairs(f) ==
    [k \in 1..(height(f) * height(f)) |->
        <<(k - 1) \div height(f), (k - 1) % height(f)>>]

\* one iteration of the loop of compute_scenic_score.  forest.rows[row][col]
\* panics when the row has no such column
ScoreTree ==
    /\ pc = "compute_scenic_score"
    /\ pairs_taken < Len(score_pairs(forest))
    /\ LET row == score_pairs(forest)[pairs_taken + 1][1]
           col == score_pairs(forest)[pairs_taken + 1][2]
       IN  IF col >= Len(forest.rows[row + 1])
           THEN /\ pc' = "panicked"
                /\ UNCHANGED <<forest, pairs_taken>>
           ELSE LET tree_height == forest.rows[row + 1][col + 1].height
                    scenic_score ==
                        count_visible_trees_from(forest, left_of(forest, row, col), tree_height)
                        * count_visible_trees_from(forest, right_of(forest, row, col), tree_height)
                        * count_visible_trees_from(forest, top_of(forest, row, col), tree_height)
                        * count_visible_trees_from(forest, bottom_of(forest, row, col), tree_height)
                IN  /\ forest' = [forest EXCEPT
                                    !.rows[row + 1][col + 1].scenic_score = scenic_score]
                    /\ pairs_taken' = pairs_taken + 1
                    /\ UNCHANGED pc
    /\ UNCHANGED <<row_idx, col_idx, visible_trees, not_forest>>

\* the loop of compute_scenic_score is over
ScenicReturn ==
    /\ pc = "compute_scenic_score"
    /\ pairs_taken = Len(score_pairs(forest))
    /\ pc' = "returned"
    /\ UNCHANGED <<forest_vars, not_forest>>

NextScenic == ScoreTree \/ ScenicReturn

SpecScenic == InitScenic /\ [][NextScenic]_vars

\* the match of compute_visibility_for_sequence with `<=` in place of `<`
visibility_match_not_strict(max_height, tree_height) ==
    IF is_some(max_height)
    THEN <<unwrap(max_height) <= tree_height, Some(max(unwrap(max_height), tree_height))>>
    ELSE <<TRUE, Some(tree_height)>>
\* the match of compute_visibility_for_sequence: (is_visible, max_height)
visibility_match(max_height, tree_height) ==
    IF is_some(max_height)
    THEN <<unwrap(max_height) < tree_height, Some(max(unwrap(max_height), tree_height))>>
    ELSE <<TRUE, Some(tree_height)>>

\* the loop of compute_visibility_for_sequence from the tree it has reached,
\* with the max_height it has reached it with
RECURSIVE visibility_loop(_, _, _, _)
visibility_loop(f, sequence_iter, visibility, max_height) ==
    IF sequence_iter = <<>> THEN f
    ELSE LET cell == Head(sequence_iter)
             matched == visibility_match(max_height, tree_at(f, cell).height)
             is_visible == matched[1]
             updated ==
                 [f EXCEPT !.rows[cell[1] + 1][cell[2] + 1].visibility =
                     IF is_visible THEN @ \cup {visibility} ELSE @ \ {visibility}]
         IN  visibility_loop(updated, Tail(sequence_iter), visibility, matched[2])

\* compute_visibility_for_sequence(sequence_iter, visibility)
compute_visibility_for_sequence(f, sequence_iter, visibility) ==
    visibility_loop(f, sequence_iter, visibility, None)

InitVisibility ==
    /\ AnyForest
    /\ pairs_taken = 0
    /\ row_idx = 0
    /\ col_idx = 0
    /\ visible_trees = None
    /\ pc = "compute_visibility"
    /\ NoMain
    /\ NoParse
    /\ NoLog
    /\ NoDial
    /\ NoLobby
    /\ NoRope
    /\ NoTuning
    /\ NoCrane

\* one iteration of `for row_idx in 0..forest.height()`
VisibilityOfRow ==
    /\ pc = "compute_visibility"
    /\ row_idx < height(forest)
    /\ LET from_west == compute_visibility_for_sequence(
                            forest, iter_row(forest, row_idx), "West")
       IN  forest' = compute_visibility_for_sequence(
                         from_west, rev(iter_row(from_west, row_idx)), "East")
    /\ row_idx' = row_idx + 1
    /\ UNCHANGED <<pc, pairs_taken, col_idx, visible_trees, not_forest>>

\* one iteration of `for col_idx in 0..forest.width()`
VisibilityOfCol ==
    /\ pc = "compute_visibility"
    /\ row_idx = height(forest)
    /\ col_idx < width(forest)
    /\ LET from_north == compute_visibility_for_sequence(
                             forest, iter_col(forest, col_idx), "North")
       IN  forest' = compute_visibility_for_sequence(
                         from_north, rev(iter_col(from_north, col_idx)), "South")
    /\ col_idx' = col_idx + 1
    /\ UNCHANGED <<pc, pairs_taken, row_idx, visible_trees, not_forest>>

\* both loops are over: compute_visibility returns, and count_visible_trees
\* is called on the forest
VisibilityReturn ==
    /\ pc = "compute_visibility"
    /\ row_idx = height(forest)
    /\ col_idx = width(forest)
    /\ pc' = "count_visible_trees"
    /\ UNCHANGED <<forest_vars, not_forest>>

\* forest.rows.iter().flatten()
RECURSIVE flatten_rows(_)
flatten_rows(rows) ==
    IF rows = <<>> THEN <<>> ELSE Head(rows) \o flatten_rows(Tail(rows))
\* filter(|tree| !tree.visibility.is_empty()).count()
RECURSIVE count_not_empty(_)
count_not_empty(trees) ==
    IF trees = <<>> THEN 0
    ELSE (IF Head(trees).visibility # {} THEN 1 ELSE 0) + count_not_empty(Tail(trees))

\* count_visible_trees(forest)
CountVisibleTrees ==
    /\ pc = "count_visible_trees"
    /\ visible_trees' = Some(count_not_empty(flatten_rows(forest.rows)))
    /\ pc' = "returned"
    /\ UNCHANGED <<forest, pairs_taken, row_idx, col_idx, not_forest>>

NextVisibility ==
    VisibilityOfRow \/ VisibilityOfCol \/ VisibilityReturn \/ CountVisibleTrees

SpecVisibility == InitVisibility /\ [][NextVisibility]_vars

\* ====== 2022/05 SupplyStacks: apply_instructions_with_stacks / _with_slices
CrateLabels == {"A", "B"}
Instruction(amount, from, to) == [amount |-> amount, from |-> from, to |-> to]
\* the instructions parse_instruction reads: any amount up to MaxAmount, any
\* stack number from 0 to one past the most stacks a cargo has
Instructions ==
    { Instruction(amount, from, to) :
        amount \in 0..MaxAmount, from \in 0..(MaxStacks + 1), to \in 0..(MaxStacks + 1) }

\* Vec::get and Vec::get_mut: the stack at an index, None when there is none.
\* An index of -1 stands for usize::MAX, which `0 - 1` wraps to: like it, it
\* is the index of no stack
get(stacks, index) ==
    IF index \in 0..(Len(stacks) - 1) THEN Some(stacks[index + 1]) ELSE None

OutOfBoundsStack(index) == <<"OutOfBoundsStack", index>>
StackUnderflow(index) == <<"StackUnderflow", index>>

\* the body of the loop of apply_instructions_with_slices with a copy in place
\* of the drain
move_slice_without_drain(stacks, from_index, to_index, amount) ==
    IF get(stacks, from_index) = None THEN Err(OutOfBoundsStack(from_index))
    ELSE LET from_size == Len(unwrap(get(stacks, from_index)))
         IN  IF from_size < amount THEN Err(StackUnderflow(from_index))
             ELSE LET new_size == from_size - amount
                      to_move == SubSeq(stacks[from_index + 1], new_size + 1, from_size)
                  IN  IF get(stacks, to_index) = None
                      THEN Err(OutOfBoundsStack(to_index))
                      ELSE Ok([stacks EXCEPT ![to_index + 1] = @ \o to_move])

\* the loop of apply_instructions_with_stacks with a copy of the top crate in
\* place of the pop
RECURSIVE move_one_by_one_without_pop(_, _, _, _)
move_one_by_one_without_pop(stacks, from_index, to_index, amount) ==
    IF amount = 0 THEN Ok(stacks)
    ELSE IF get(stacks, from_index) = None THEN Err(OutOfBoundsStack(from_index))
    ELSE IF unwrap(get(stacks, from_index)) = <<>> THEN Err(StackUnderflow(from_index))
    ELSE LET from_stack == stacks[from_index + 1]
             to_move == from_stack[Len(from_stack)]
         IN  IF get(stacks, to_index) = None
             THEN Err(OutOfBoundsStack(to_index))
             ELSE move_one_by_one_without_pop(
                      [stacks EXCEPT ![to_index + 1] = Append(@, to_move)],
                      from_index, to_index, amount - 1)

\* the loop `for _ in 0..instruction.amount` of apply_instructions_with_stacks:
\* pop a crate, push it, `amount` times, unless a `?` returns the error
RECURSIVE move_one_by_one(_, _, _, _)
move_one_by_one(stacks, from_index, to_index, amount) ==
    IF amount = 0 THEN Ok(stacks)
    ELSE IF get(stacks, from_index) = None THEN Err(OutOfBoundsStack(from_index))
    ELSE IF unwrap(get(stacks, from_index)) = <<>> THEN Err(StackUnderflow(from_index))
    ELSE LET from_stack == stacks[from_index + 1]
             to_move == from_stack[Len(from_stack)]
             popped == [stacks EXCEPT ![from_index + 1] =
                           SubSeq(from_stack, 1, Len(from_stack) - 1)]
         IN  IF get(popped, to_index) = None
             THEN Err(OutOfBoundsStack(to_index))
             ELSE move_one_by_one([popped EXCEPT ![to_index + 1] = Append(@, to_move)],
                                  from_index, to_index, amount - 1)

\* the body of the loop of apply_instructions_with_slices: drain the top
\* `amount` crates of a stack and extend the other one with them
move_slice(stacks, from_index, to_index, amount) ==
    IF get(stacks, from_index) = None THEN Err(OutOfBoundsStack(from_index))
    ELSE LET from_size == Len(unwrap(get(stacks, from_index)))
         IN  IF from_size < amount THEN Err(StackUnderflow(from_index))
             ELSE LET new_size == from_size - amount
                      to_move == SubSeq(stacks[from_index + 1], new_size + 1, from_size)
                      drained == [stacks EXCEPT ![from_index + 1] = SubSeq(@, 1, new_size)]
                  IN  IF get(drained, to_index) = None
                      THEN Err(OutOfBoundsStack(to_index))
                      ELSE Ok([drained EXCEPT ![to_index + 1] = @ \o to_move])

\* how many crates the stacks hold
RECURSIVE crates_count(_)
crates_count(stacks) ==
    IF stacks = <<>> THEN 0 ELSE Len(Head(stacks)) + crates_count(Tail(stacks))
\* the cargos of up to MaxStacks stacks and up to MaxCrates crates
AnyCargo ==
    \E stack_count \in 1..MaxStacks :
        /\ cargo \in [1..stack_count -> SeqsUpTo(CrateLabels, MaxCrates)]
        /\ crates_count(cargo) <= MaxCrates

\* main calls both functions, one after the other, on a cargo and on a list
\* of up to MaxInstructions instructions
InitCrane ==
    /\ AnyCargo
    /\ instructions \in SeqsUpTo(Instructions, MaxInstructions)
    /\ instructions_taken = 0
    /\ crane_result = cargo
    /\ with_stacks = None
    /\ with_slices = None
    /\ pc = "apply_instructions_with_stacks"
    /\ NoMain
    /\ NoParse
    /\ NoLog
    /\ NoDial
    /\ NoLobby
    /\ NoRope
    /\ NoTuning
    /\ NoForest

\* `instruction.from - 1` or `instruction.to - 1` overflows
index_overflows(instruction) == instruction.from = 0 \/ instruction.to = 0

\* the body of `for instruction in instructions` of
\* apply_instructions_with_stacks on an instruction.  An overflowing index
\* panics or wraps, as the build has it; an error returns Err
StacksApply(instruction) ==
    /\ pc = "apply_instructions_with_stacks"
    /\ LET moved == move_one_by_one(crane_result, instruction.from - 1,
                                    instruction.to - 1, instruction.amount)
       IN  \/ /\ index_overflows(instruction)
              /\ pc' = "panicked"
              /\ UNCHANGED <<crane_result, instructions_taken, with_stacks>>
           \/ /\ is_some(moved.value)
              /\ crane_result' = unwrap(moved.value)
              /\ instructions_taken' = instructions_taken + 1
              /\ UNCHANGED <<pc, with_stacks>>
           \/ /\ ~is_some(moved.value)
              /\ with_stacks' = Some(moved)
              /\ pc' = "with_stacks_returned"
              /\ UNCHANGED <<crane_result, instructions_taken>>
    /\ UNCHANGED <<cargo, instructions, with_slices, not_crane>>

\* the body of `for instruction in instructions` of
\* apply_instructions_with_slices on an instruction
SlicesApply(instruction) ==
    /\ pc = "apply_instructions_with_slices"
    /\ LET moved == move_slice(crane_result, instruction.from - 1,
                               instruction.to - 1, instruction.amount)
       IN  \/ /\ index_overflows(instruction)
              /\ pc' = "panicked"
              /\ UNCHANGED <<crane_result, instructions_taken, with_slices>>
           \/ /\ is_some(moved.value)
              /\ crane_result' = unwrap(moved.value)
              /\ instructions_taken' = instructions_taken + 1
              /\ UNCHANGED <<pc, with_slices>>
           \/ /\ ~is_some(moved.value)
              /\ with_slices' = Some(moved)
              /\ pc' = "returned"
              /\ UNCHANGED <<crane_result, instructions_taken>>
    /\ UNCHANGED <<cargo, instructions, with_stacks, not_crane>>

\* the loop is over: Ok(result)
StacksOk ==
    /\ pc = "apply_instructions_with_stacks"
    /\ with_stacks' = Some(Ok(crane_result))
    /\ pc' = "with_stacks_returned"
    /\ UNCHANGED <<cargo, instructions, instructions_taken, crane_result,
                   with_slices, not_crane>>
SlicesOk ==
    /\ pc = "apply_instructions_with_slices"
    /\ with_slices' = Some(Ok(crane_result))
    /\ pc' = "returned"
    /\ UNCHANGED <<cargo, instructions, instructions_taken, crane_result,
                   with_stacks, not_crane>>

\* one iteration of the loop of apply_instructions_with_stacks, and its return
StacksInstruction ==
    /\ instructions_taken < Len(instructions)
    /\ StacksApply(instructions[instructions_taken + 1])
StacksReturn ==
    /\ instructions_taken = Len(instructions)
    /\ StacksOk

\* main calls apply_instructions_with_slices on the same cargo and
\* instructions: it clones the cargo again
CallSlices ==
    /\ pc = "with_stacks_returned"
    /\ crane_result' = cargo
    /\ instructions_taken' = 0
    /\ pc' = "apply_instructions_with_slices"
    /\ UNCHANGED <<cargo, instructions, with_stacks, with_slices, not_crane>>

\* one iteration of the loop of apply_instructions_with_slices, and its return
SlicesInstruction ==
    /\ instructions_taken < Len(instructions)
    /\ SlicesApply(instructions[instructions_taken + 1])
SlicesReturn ==
    /\ instructions_taken = Len(instructions)
    /\ SlicesOk

NextCrane ==
    \/ StacksInstruction
    \/ StacksReturn
    \/ CallSlices
    \/ SlicesInstruction
    \/ SlicesReturn

SpecCrane == InitCrane /\ [][NextCrane]_vars

\* ---- one of the two functions called on its own, on a cargo and on any list
\* of up to MaxInstructions instructions.  The list is not kept: each
\* iteration takes the instruction the list holds next, which is any one
InitCraneCall ==
    /\ AnyCargo
    /\ instructions = <<>>
    /\ instructions_taken = 0
    /\ crane_result = cargo
    /\ with_stacks = None
    /\ with_slices = None
    /\ pc \in {"apply_instructions_with_stacks", "apply_instructions_with_slices"}
    /\ NoMain
    /\ NoParse
    /\ NoLog
    /\ NoDial
    /\ NoLobby
    /\ NoRope
    /\ NoTuning
    /\ NoForest

CallStacksInstruction ==
    /\ instructions_taken < MaxInstructions
    /\ \E instruction \in Instructions : StacksApply(instruction)
\* the list ends after the instructions taken
CallStacksReturn == StacksOk

CallSlicesInstruction ==
    /\ instructions_taken < MaxInstructions
    /\ \E instruction \in Instructions : SlicesApply(instruction)
CallSlicesReturn == SlicesOk

NextCraneCall ==
    \/ CallStacksInstruction
    \/ CallStacksReturn
    \/ CallSlicesInstruction
    \/ CallSlicesReturn

SpecCraneCall == InitCraneCall /\ [][NextCraneCall]_vars

\* =================================================================== claims
\* the values of the half-open span [start, start + length)
span(range) == range.start .. (range.start + range.length - 1)
\* the values covered by a list of ranges
covered(ranges) == UNION { span(ranges[k]) : k \in 1..Len(ranges) }
\* the values of an Option<AlmanacRange>: none for None
option_span(o) == IF is_some(o) THEN span(unwrap(o)) ELSE {}
called_apply == pc \in {"subtract_range", "returned"}
called_subtract == pc = "returned"
\* the two spans share at least one value
shares_value(a, b) == span(a) \cap span(b) # {}

\* C1: whenever apply_range_mapping(i, r) returns Some(m), m.length is the
\* number of values common to i's span and r's source span, and m.start is
\* max(i.start, r.from_start) - r.from_start + r.to_start.
C1_OverlapCorrectness ==
    (called_apply /\ is_some(mapped)) =>
        /\ unwrap(mapped).length =
               Cardinality(span(source_range) \cap span(mapped_portion_of(mapping)))
        /\ unwrap(mapped).start =
               max(source_range.start, mapping.from_start)
                   - mapping.from_start + mapping.to_start

\* apply_range_mapping has returned the image of a partial overlap: the range
\* sticks out of the mapping on the right and at least two values are mapped
C1_Witness ==
    /\ called_apply
    /\ is_some(mapped)
    /\ unwrap(mapped).length >= 2
    /\ source_range.start + source_range.length
           > mapping.from_start + mapping.length
    /\ mapping.to_start # mapping.from_start

\* the mapped overlap translated back to source coordinates
mapped_in_source_coordinates ==
    IF is_some(mapped)
    THEN span(AlmanacRange(unwrap(mapped).start + mapping.from_start - mapping.to_start,
                           unwrap(mapped).length))
    ELSE {}

\* C3: for all i and r (here already for those of length >= 1), the mapped
\* overlap of apply_range_mapping(i, r) (in source coordinates, empty for
\* None) and the two remainders of subtract_range(i, r's source span) are
\* pairwise disjoint and their union is exactly i's span.
C3_ConservationOfCoverage ==
    (called_subtract /\ source_range.length >= 1 /\ mapping.length >= 1) =>
        LET overlap == mapped_in_source_coordinates
            left == option_span(remainders[1])
            right == option_span(remainders[2])
        IN  /\ overlap \cap left = {}
            /\ overlap \cap right = {}
            /\ left \cap right = {}
            /\ overlap \cup left \cup right = span(source_range)

\* C6: for every interval i (length >= 1) and rule r whose spans share no
\* value, apply_range_mapping(i, r) returns None.
C6_DisjointReturnsNone ==
    (called_apply /\ source_range.length >= 1
                  /\ ~shares_value(source_range, mapped_portion_of(mapping))) =>
        mapped = None

\* C7: when the covered range shares a value with the source, the left
\* remainder of subtract_range is exactly the part of the source before the
\* covered range's start, the right remainder exactly the part from the covered
\* range's end on, a side with no such part is None, and both are None when
\* the covered range contains the source.
C7_SubtractRemainders ==
    (called_subtract /\ shares_value(source_range, mapped_portion_of(mapping))) =>
        LET covered_start == mapping.from_start
            covered_end == mapping.from_start + mapping.length
            before == { v \in span(source_range) : v < covered_start }
            after == { v \in span(source_range) : v >= covered_end }
        IN  /\ is_some(remainders[1]) <=> before # {}
            /\ is_some(remainders[2]) <=> after # {}
            /\ is_some(remainders[1]) =>
                   /\ unwrap(remainders[1]).length >= 1
                   /\ span(unwrap(remainders[1])) = before
            /\ is_some(remainders[2]) =>
                   /\ unwrap(remainders[2]).length >= 1
                   /\ span(unwrap(remainders[2])) = after
            /\ span(source_range) \subseteq span(mapped_portion_of(mapping)) =>
                   remainders = <<None, None>>

\* subtract_range has cut a covered range out of the inside of the source:
\* both remainders exist
C7_Witness ==
    /\ called_subtract
    /\ shares_value(source_range, mapped_portion_of(mapping))
    /\ is_some(remainders[1])
    /\ is_some(remainders[2])

\* ------------------------------------------------------ claims on the stages
\* the translation a stage is meant to apply to one value: by the first range
\* mapping, in input order, whose half-open source span contains the value,
\* and the identity when there is none
translate(v, range_mappings) ==
    LET hits == { k \in 1..Len(range_mappings) :
                    /\ range_mappings[k].from_start <= v
                    /\ v < range_mappings[k].from_start + range_mappings[k].length }
    IN  IF hits = {} THEN v
        ELSE LET k == CHOOSE h \in hits : \A g \in hits : h <= g
             IN  v - range_mappings[k].from_start + range_mappings[k].to_start

\* the range mappings of the map the chain walk is about to apply
current_range_mappings == almanac.maps_by_source[label].range_mappings

RECURSIVE sum_of_lengths(_)
sum_of_lengths(ranges) ==
    IF ranges = <<>> THEN 0
    ELSE Head(ranges).length + sum_of_lengths(Tail(ranges))

in_solve_problem_2 == pc \in {"solve_problem_2", "done"}

\* every range mapping of the list maps at least one value
all_nonempty(range_mappings) ==
    \A m \in 1..Len(range_mappings) : range_mappings[m].length >= 1

\* C2: apply_map_to_elements translates every input value by the first range
\* mapping whose half-open source span contains it and passes it through
\* unchanged when no span contains it (here already for range mappings of
\* length >= 1).
C2_ScalarStageSemantics ==
    [][(Solve1Loop /\ all_nonempty(current_range_mappings)) =>
          items' = { translate(v, current_range_mappings) : v \in items }]_vars

\* C4: the values covered by the ranges apply_map_to_ranges returns are exactly
\* the translations of the values covered by its input ranges.
C4_NoValueCreatedOrDestroyed ==
    [][Solve2Loop =>
          covered(item_ranges') =
              { translate(v, current_range_mappings) : v \in covered(item_ranges) }]_vars

\* the seed-to-soil map has been applied to the seed ranges, has split one of
\* them and has moved a value
C4_Witness ==
    /\ pc = "solve_problem_2"
    /\ label = "soil"
    /\ "seed" \in DOMAIN almanac.maps_by_source
    /\ Len(item_ranges) > Len(almanac.seeds_as_ranges)
    /\ covered(item_ranges) # covered(almanac.seeds_as_ranges)
    /\ covered(item_ranges) \cap covered(almanac.seeds_as_ranges) # {}

\* C5: on the single value v and the single interval {start: v, length: 1}
\* solve_problem_1 and solve_problem_2 return the same result (here already
\* for range mappings of length >= 1).
C5_ScalarAndIntervalModeAgree ==
    (/\ pc = "done"
     /\ \A l \in DOMAIN almanac.maps_by_source :
            all_nonempty(almanac.maps_by_source[l].range_mappings)
     /\ \E v \in almanac.seeds :
            /\ almanac.seeds = {v}
            /\ almanac.seeds_as_ranges = <<AlmanacRange(v, 1)>>) =>
        solution_1 = solution_2

\* C8: from seed ranges of length >= 1, every range the stages emit has
\* length >= 1.
C8_NoZeroLengthRange ==
    in_solve_problem_2 =>
        \A k \in 1..Len(item_ranges) : item_ranges[k].length >= 1

\* C9: the lengths of the ranges returned by apply_map_to_ranges add up to the
\* lengths of its input ranges, stage after stage along the chain until
\* solve_problem_2 leaves its loop.
C9_TotalLengthConserved ==
    in_solve_problem_2 =>
        sum_of_lengths(item_ranges) = sum_of_lengths(almanac.seeds_as_ranges)

\* the chain seed -> soil -> location has been walked to its end and a seed
\* range was split on the way
C9_Witness ==
    /\ pc = "done"
    /\ DOMAIN almanac.maps_by_source = {"seed", "soil"}
    /\ almanac.maps_by_source["seed"].to = "soil"
    /\ almanac.maps_by_source["soil"].to = "location"
    /\ Len(item_ranges) > Len(almanac.seeds_as_ranges)
    /\ covered(item_ranges) # covered(almanac.seeds_as_ranges)

\* C10: an input range (length >= 1) that shares no value with the source
\* span of any range mapping of the stage is in the stage's output with the
\* same start and the same length.
C10_IdentityPassThrough ==
    [][Solve2Loop =>
          \A k \in 1..Len(item_ranges) :
              (/\ item_ranges[k].length >= 1
               /\ \A m \in 1..Len(current_range_mappings) :
                      ~shares_value(item_ranges[k],
                                    mapped_portion_of(current_range_mappings[m]))) =>
                  \E j \in 1..Len(item_ranges') : item_ranges'[j] = item_ranges[k]]_vars


\* the index of the first range mapping whose half-open source span contains
\* v, 0 when there is none
first_hit(v, range_mappings) ==
    LET hits == { k \in 1..Len(range_mappings) :
                    v \in span(mapped_portion_of(range_mappings[k])) }
    IN  IF hits = {} THEN 0 ELSE CHOOSE h \in hits : \A g \in hits : h <= g

\* C11: a value covered by the source spans of two range mappings of the stage
\* is translated by the first range mapping that covers it, by
\* apply_map_to_ranges and by apply_map_to_elements (here already for range
\* mappings of length >= 1).
C11_FirstMatchingRuleWins ==
    (pc = "returned" /\ all_nonempty(current_range_mappings)) =>
        LET v == almanac.seeds_as_ranges[1].start IN
            \A j \in 1..Len(current_range_mappings) :
                \A k \in (j + 1)..Len(current_range_mappings) :
                    (/\ first_hit(v, current_range_mappings) = j
                     /\ v \in span(mapped_portion_of(current_range_mappings[k]))) =>
                        LET by_first == v - current_range_mappings[j].from_start
                                          + current_range_mappings[j].to_start
                        IN  /\ item_ranges = <<AlmanacRange(by_first, 1)>>
                            /\ items = {by_first}

\* C16: within one stage a value is translated at most once.  Every range the
\* stage returns is either a part of an input range that no range mapping
\* covers, or the image under one range mapping k of a part of an input range
\* that none of the range mappings before k covers: a range mapped by k is not
\* mapped again by a later range mapping, and only what the range mappings
\* before k left over is mapped by k.
C16_TranslatedAtMostOnce ==
    [][Solve2Loop =>
          \A o \in 1..Len(item_ranges') :
              LET out == item_ranges'[o]
                  rms == current_range_mappings
              IN  \/ \E i \in 1..Len(item_ranges) :
                         /\ out.start >= item_ranges[i].start
                         /\ out.start + out.length
                                <= item_ranges[i].start + item_ranges[i].length
                         /\ \A v \in span(out) : first_hit(v, rms) = 0
                  \/ \E i \in 1..Len(item_ranges), k \in 1..Len(rms) :
                         LET back == AlmanacRange(out.start - rms[k].to_start
                                                            + rms[k].from_start,
                                                  out.length)
                         IN  /\ out.start >= rms[k].to_start
                             /\ back.start >= item_ranges[i].start
                             /\ back.start + back.length
                                    <= item_ranges[i].start + item_ranges[i].length
                             /\ \A v \in span(back) : first_hit(v, rms) = k]_vars

\* the seed-to-soil map has mapped a seed range by its first range mapping
\* into the source span of its second one, and returned it there
C16_Witness ==
    /\ pc = "solve_problem_2"
    /\ label = "soil"
    /\ "seed" \in DOMAIN almanac.maps_by_source
    /\ LET rms == almanac.maps_by_source["seed"].range_mappings
       IN  /\ Len(rms) = 2
           /\ \E o \in 1..Len(item_ranges), i \in 1..Len(almanac.seeds_as_ranges) :
                  /\ item_ranges[o].length >= 1
                  /\ span(item_ranges[o]) \subseteq span(mapped_portion_of(rms[2]))
                  /\ item_ranges[o].start >= rms[1].to_start
                  /\ LET back == AlmanacRange(item_ranges[o].start - rms[1].to_start
                                                  + rms[1].from_start,
                                              item_ranges[o].length)
                     IN  /\ span(back) \subseteq span(almanac.seeds_as_ranges[i])
                         /\ \A v \in span(back) : first_hit(v, rms) = 1
                         /\ span(back) \cap span(item_ranges[o]) = {}

\* C17: subtract_range with a subtracting range that shares no value with the
\* source (both of length >= 1) returns the whole source as its single
\* remainder: on the right when the subtracting range lies to the left of the
\* source, on the left when it lies to the right.
C17_SubtractDisjoint ==
    (called_subtract /\ source_range.length >= 1 /\ mapping.length >= 1) =>
        LET subtracting_range == mapped_portion_of(mapping) IN
        /\ subtracting_range.start + subtracting_range.length <= source_range.start
               => remainders = <<None, Some(source_range)>>
        /\ subtracting_range.start >= source_range.start + source_range.length
               => remainders = <<Some(source_range), None>>


\* the first n labels of the chain that starts at l: l, its destination, ...,
\* up to the first label that has no map
RECURSIVE chain(_, _, _)
chain(maps_by_source, l, n) ==
    IF n = 0 \/ l \notin DOMAIN maps_by_source THEN <<>>
    ELSE <<l>> \o chain(maps_by_source, maps_by_source[l].to, n - 1)

stages == Cardinality(DOMAIN almanac.maps_by_source)
\* the chain from "seed" comes back to a label it has left
chain_revisits ==
    LET labels == chain(almanac.maps_by_source, "seed", stages + 1)
    IN  \E i, j \in 1..Len(labels) : i < j /\ labels[i] = labels[j]
walking == pc \in {"solve_problem_1", "solve_problem_2"}
returned == pc \in {"done", "panicked"}

\* C12: when the chain from "seed" never revisits a label, a walk applies at
\* most as many maps as the almanac holds, and the walks end: main gets past
\* both loops.
C12_ChainTerminates ==
    /\ [](~chain_revisits => Len(applied) <= stages)
    /\ (~chain_revisits ~> returned)

\* solve_problem_2 has returned after a walk through all three maps
C12_Witness ==
    /\ pc = "done"
    /\ ~chain_revisits
    /\ stages = 3
    /\ Len(applied) = 3

\* C13: a walk applies the maps in the order of the chain: "seed", its
\* destination, ..., and it returns at the first label that has no map, with
\* every map of the chain applied once and no other map applied; when "seed"
\* has no map it returns what it started with.
C13_ChainOrder ==
    /\ [](walking =>
            /\ applied = chain(almanac.maps_by_source, "seed", Len(applied))
            /\ Len(applied) < MaxApplied =>
                   label = IF applied = <<>> THEN "seed"
                           ELSE almanac.maps_by_source[applied[Len(applied)]].to)
    /\ [][(Solve1Return \/ Solve2Return) =>
            /\ applied = chain(almanac.maps_by_source, "seed", stages + 1)
            /\ \A i, j \in 1..Len(applied) : applied[i] = applied[j] => i = j
            /\ label \notin DOMAIN almanac.maps_by_source
            /\ "seed" \notin DOMAIN almanac.maps_by_source =>
                   /\ pc = "solve_problem_1" => items = almanac.seeds
                   /\ pc = "solve_problem_2" => item_ranges = almanac.seeds_as_ranges]_vars

\* solve_problem_2 has returned after the maps of "seed", of "fertilizer" and
\* of "soil", in this order
C13_Witness ==
    /\ pc = "done"
    /\ applied = <<"seed", "fertilizer", "soil">>
    /\ almanac.maps_by_source["seed"].to = "fertilizer"

\* C14: when the chain from "seed" revisits a label, the walk never returns:
\* its label always has a map, and no solution is ever produced.
C14_CycleNeverReturns ==
    chain_revisits =>
        /\ walking
        /\ label \in DOMAIN almanac.maps_by_source
        /\ first_run = None
        /\ pc = "solve_problem_1" => solution_1 = None
        /\ solution_2 = None

\* solve_problem_2 walks a cycle and has applied more maps than the almanac
\* holds
C14_Witness ==
    /\ chain_revisits
    /\ pc = "solve_problem_2"
    /\ Len(applied) > stages
    /\ item_ranges # <<>>


occurrences(ranges, range) == Cardinality({ k \in 1..Len(ranges) : ranges[k] = range })

\* C15: the seed ranges in another order give the same least start, and the
\* same final ranges, each as many times.
C15_OrderIndependence ==
    (pc = "done" /\ is_some(first_run)) =>
        /\ solution_2 = unwrap(first_run).solution
        /\ Len(item_ranges) = Len(unwrap(first_run).item_ranges)
        /\ \A k \in 1..Len(item_ranges) :
               occurrences(item_ranges, item_ranges[k])
                   = occurrences(unwrap(first_run).item_ranges, item_ranges[k])

\* the second call started from the seed ranges in another order and returned
\* its final ranges in another order than the first call
C15_Witness ==
    /\ pc = "done"
    /\ is_some(first_run)
    /\ Len(almanac.seeds_as_ranges) >= 2
    /\ item_ranges # unwrap(first_run).item_ranges
    /\ item_ranges[1].start # unwrap(first_run).item_ranges[1].start


\* the lines read so far
consumed == SubSeq(lines, 1, line_number)
headers(read) == { i \in 1..Len(read) : read[i].kind = "map" }
\* the place of the last header of the label, and of the header after it (or
\* one past the lines read)
last_header(read, l) ==
    CHOOSE h \in headers(read) :
        /\ read[h].from = l
        /\ \A g \in headers(read) : read[g].from = l => g <= h
header_after(read, h) ==
    LET later == { g \in headers(read) : g > h } \cup {Len(read) + 1}
    IN  CHOOSE n \in later : \A g \in later : n <= g
is_range_line(input_line) == input_line.kind = "range"
range_lines_between(read, h, n) == SelectSeq(SubSeq(read, h + 1, n - 1), is_range_line)

\* C18: while parse_input reads and when it returns, the maps are those of the
\* headers read: the label X of a header "X-to-Y map:" has a map, of
\* destination Y, and its range mappings are the lines "d s l" read after the
\* last header of X and before the next header, in the order read, each as
\* {from_start: s, to_start: d, length: l}.
C18_GraphInInputOrder ==
    pc \in {"parse_input", "Ok(result)"} =>
        /\ DOMAIN result.maps_by_source = { consumed[h].from : h \in headers(consumed) }
        /\ \A l \in DOMAIN result.maps_by_source :
               LET h == last_header(consumed, l)
                   between == range_lines_between(consumed, h, header_after(consumed, h))
               IN  /\ result.maps_by_source[l].to = consumed[h].to
                   /\ Len(result.maps_by_source[l].range_mappings) = Len(between)
                   /\ \A k \in 1..Len(between) :
                          result.maps_by_source[l].range_mappings[k]
                              = [from_start |-> between[k].numbers[2],
                                 to_start |-> between[k].numbers[1],
                                 length |-> between[k].numbers[3]]
        /\ pc = "Ok(result)" => almanac = result /\ line_number = Len(lines)

\* parse_multiple_maps: "a-to-b map:", "1 2 3", "b-to-c map:", "4 5 6" parsed
C18_Witness ==
    /\ pc = "Ok(result)"
    /\ lines = <<MapLine("a", "b"), RangeLine(<<1, 2, 3>>),
                 MapLine("b", "c"), RangeLine(<<4, 5, 6>>)>>
    /\ almanac.maps_by_source["a"] = AlmanacMap("b", <<AlmanacRangeMapping(2, 1, 3)>>)
    /\ almanac.maps_by_source["b"] = AlmanacMap("c", <<AlmanacRangeMapping(5, 4, 6)>>)


\* ---- the log as its text tells it, without the directories
is_cd_up(l) == l.text = "$ cd .."
is_cd_into(l) == "CdIntoRule" \in l.matches /\ ~is_cd_up(l)
is_dir_entry(l) == l.matches = {"DirEntryRule"}
is_file_entry(l) == l.matches = {"FileEntryRule"}
\* among the lines read there is a "$ cd <dirname>": there is a current
\* directory from then on
has_current(read) == \E i \in 1..Len(read) : is_cd_into(read[i])
\* how many directories the lines read have stacked: a "$ cd <dirname>" with
\* a current directory stacks it, a "$ cd .." takes the top one off
RECURSIVE stack_depth(_)
stack_depth(read) ==
    IF read = <<>> THEN 0
    ELSE LET before == SubSeq(read, 1, Len(read) - 1)
             l == read[Len(read)]
         IN  IF is_cd_into(l) /\ has_current(before) THEN stack_depth(before) + 1
             ELSE IF is_cd_up(l) THEN stack_depth(before) - 1
             ELSE stack_depth(before)
lines_before(i) == SubSeq(log_lines, 1, i - 1)
oversized(l) == is_file_entry(l) /\ l.filesize # "1"
offending(i) ==
    LET l == log_lines[i] IN
    \/ l.matches = {}
    \/ is_cd_up(l) /\ stack_depth(lines_before(i)) = 0
    \/ (is_dir_entry(l) \/ is_file_entry(l)) /\ ~has_current(lines_before(i))
    \/ oversized(l)
first_offending ==
    CHOOSE i \in 1..Len(log_lines) :
        offending(i) /\ \A j \in 1..(i - 1) : ~offending(j)
some_offending == \E i \in 1..Len(log_lines) : offending(i)
\* the error the claim names for an offending line; it names none for a file
\* entry whose size does not fit while there is a current directory
claimed_errors(i) ==
    LET l == log_lines[i] IN
    IF l.matches = {} THEN {"UnrecognizedSyntax"}
    ELSE IF is_cd_up(l) THEN {"NoParentDirectory"}
    ELSE IF ~has_current(lines_before(i)) THEN {"NoCurrentDirectory"}
    ELSE {"InvalidFileSize"}
\* the same, with the size of a file entry looked at before the current
\* directory
errors_by_size_first(i) ==
    IF oversized(log_lines[i]) THEN {"InvalidFileSize"} ELSE claimed_errors(i)
fails_fast_with(errors_of(_)) ==
    /\ pc = "parse_log_lines" => \A i \in 1..lines_applied : ~offending(i)
    /\ (pc = "returned" /\ some_offending) =>
           /\ unwrap(log_result).error \in errors_of(first_offending)
           /\ unwrap(log_result).value = None
           /\ lines_applied = first_offending - 1
    /\ (pc = "returned" /\ ~some_offending) =>
           /\ lines_applied = Len(log_lines)
           /\ unwrap(log_result).error \in {"", "NoRootDirectory"}

\* C19 as claimed: parse_log_lines returns an error at the first offending
\* line, having applied the lines before it and no other, and returns no
\* directory: UnrecognizedSyntax for a line no rule matches, NoParentDirectory
\* for "$ cd .." on an empty stack, NoCurrentDirectory for a dir or file entry
\* without a current directory.
C19_FailFastAsClaimed == fails_fast_with(claimed_errors)

\* C19, amended: the same, except that a file entry whose size does not fit
\* usize gives InvalidFileSize, with or without a current directory.
C19_FailFast == fails_fast_with(errors_by_size_first)

\* "$ cd .." on an empty stack after a line that was applied and before a line
\* that is not
C19_Witness ==
    /\ pc = "returned"
    /\ unwrap(log_result) = Err("NoParentDirectory")
    /\ lines_applied = 1
    /\ Len(log_lines) = 3
    /\ is_some(context.current_directory)
    /\ Len(directory_entries) = 1


\* ---- the dial turned click by click
\* where the dial points after the rotations of turned
RECURSIVE position_after(_)
position_after(turned) ==
    IF turned = <<>> THEN DialStart
    ELSE (position_after(SubSeq(turned, 1, Len(turned) - 1)) + turned[Len(turned)])
             % DialSize
\* the clicks of one rotation after which the dial points at 0
clicks_on_zero(from, value) ==
    Cardinality({ k \in 1..abs(value) :
                    (from + (IF value < 0 THEN 0 - k ELSE k)) % DialSize = 0 })
RECURSIVE all_clicks_on_zero(_)
all_clicks_on_zero(turned) ==
    IF turned = <<>> THEN 0
    ELSE LET before == SubSeq(turned, 1, Len(turned) - 1)
         IN  all_clicks_on_zero(before)
                 + clicks_on_zero(position_after(before), turned[Len(turned)])

\* C20: after every value zero_counts_two has taken, and when it returns,
\* count is the number of clicks, of the rotations made click by click from
\* 50 on a dial of 100 positions, after which the dial points at 0; dial is
\* where the dial points.
C20_CountsEveryClickOnZero ==
    LET turned == SubSeq(values, 1, values_taken)
    IN  /\ count = all_clicks_on_zero(turned)
        /\ dial = position_after(turned)

\* returned after a rotation to the left that stopped on 0 and a full turn to
\* the left that started there and stopped there
C20_Witness ==
    /\ pc = "returned"
    /\ Len(values) = 2
    /\ values[1] = 0 - DialStart
    /\ values[2] = 0 - DialSize
    /\ count = 2
    /\ dial = 0


\* ---- the numbers a bank offers
\* the digits of every choice of n places of the bank, in the bank's order
RECURSIVE subsequences(_, _)
subsequences(from_bank, n) ==
    IF n = 0 THEN {<<>>}
    ELSE IF Len(from_bank) < n THEN {}
    ELSE { <<Head(from_bank)>> \o rest : rest \in subsequences(Tail(from_bank), n - 1) }
             \cup subsequences(Tail(from_bank), n)
largest_joltage ==
    CHOOSE best \in subsequences(bank, digits) :
        \A other \in subsequences(bank, digits) : ~less(best, other)
joltage_call_over == pc \in {"returned", "panicked", "wrapped"}

touching(a, b) == abs(a.x - b.x) <= 1 /\ abs(a.y - b.y) <= 1
following_path == pc \in {"follow_path", "returned"} /\ Len(rope.knots) >= 2

\* C22: on a rope whose knots all start on one cell, after every advance each
\* knot touches the knot before it, and the set follow_path returns holds the
\* cell the tail started on.
C22_RopeTouches ==
    /\ following_path =>
           \A k \in 2..Len(rope.knots) :
               touching(rope.knots[k - 1], rope.knots[k])
    /\ pc = "returned" /\ Len(rope.knots) >= 2 => Point(0, 0) \in visited
\* the head has gone right, up, right, up, right and pulled the second knot
\* and then the third one along a diagonal
C22_Witness ==
    /\ pc = "returned"
    /\ path = <<"Right", "Up", "Right", "Up", "Right">>
    /\ rope.knots = <<Point(3, 2), Point(2, 2), Point(1, 1)>>
    /\ visited = {Point(0, 0), Point(1, 1)}

\* ---- the markers of a string
\* the w characters before index k are pairwise distinct
distinct_before(s, k, w) ==
    \A i, j \in (k - w + 1)..k : i # j => s[i] # s[j]
\* the ends of the windows of w pairwise distinct consecutive characters
marker_ends(s, w) == { k \in w..Len(s) : distinct_before(s, k, w) }
least(S) == CHOOSE k \in S : \A other \in S : k <= other

\* C23: find_marker_index(input, w), for a window of at least one character,
\* returns Ok(k) for the least k >= w whose w characters input[k-w..k] are
\* pairwise distinct, and MarkerNotFound only when the input has no window of
\* w pairwise distinct consecutive characters.
C23_LeastMarker ==
    pc = "returned" /\ marker # None /\ window_size >= 1 =>
        LET ends == marker_ends(input_string, window_size)
        IN  IF ends = {} THEN unwrap(marker) = Err("MarkerNotFound")
            ELSE unwrap(marker) = Ok(least(ends))

\* ---- the forest
\* the cells of the forest
cells(f) == { <<r, c>> : r \in 0..(height(f) - 1), c \in 0..(width(f) - 1) }
\* the product of the four viewing distances of a cell
viewing_product(f, cell) ==
    LET source_height == tree_at(f, cell).height
    IN  count_visible_trees_from(f, left_of(f, cell[1], cell[2]), source_height)
        * count_visible_trees_from(f, right_of(f, cell[1], cell[2]), source_height)
        * count_visible_trees_from(f, top_of(f, cell[1], cell[2]), source_height)
        * count_visible_trees_from(f, bottom_of(f, cell[1], cell[2]), source_height)

\* C24: compute_scenic_score does not fail on a rectangular forest of any
\* height and width, and after it every tree holds the product of its four
\* viewing distances.
C24_ScenicScores ==
    /\ pc # "panicked"
    /\ pc = "returned" =>
           \A cell \in cells(forest) :
               tree_at(forest, cell).scenic_score = viewing_product(forest, cell)

\* the cells between a cell and the edge of the forest in a direction
towards(f, cell, direction) ==
    { other \in cells(f) :
        CASE direction = "West" -> other[1] = cell[1] /\ other[2] < cell[2]
          [] direction = "East" -> other[1] = cell[1] /\ other[2] > cell[2]
          [] direction = "North" -> other[2] = cell[2] /\ other[1] < cell[1]
          [] direction = "South" -> other[2] = cell[2] /\ other[1] > cell[1] }
\* every tree between the cell and the edge is strictly shorter than its tree
seen_from(f, cell, direction) ==
    \A other \in towards(f, cell, direction) :
        tree_at(f, other).height < tree_at(f, cell).height
visibility_computed == pc \in {"count_visible_trees", "returned"}

\* C25: after compute_visibility a tree carries the flag of a direction if
\* and only if every tree between it and the edge in that direction is
\* strictly shorter (so a tree on an edge carries that edge's flag), and
\* count_visible_trees counts exactly the trees that carry a flag.
C25_VisibilityFlags ==
    /\ visibility_computed =>
           \A cell \in cells(forest) : \A direction \in TreeVisibility :
               direction \in tree_at(forest, cell).visibility
                   <=> seen_from(forest, cell, direction)
    /\ pc = "returned" /\ visible_trees # None =>
           unwrap(visible_trees) =
               Cardinality({ cell \in cells(forest) :
                               tree_at(forest, cell).visibility # {} })
\* a short tree hidden in the middle of eight taller ones, and a taller one
\* that loses the flags of its row only
C25_Witness ==
    /\ pc = "returned"
    /\ height(forest) = 3
    /\ width(forest) = 3
    /\ \A cell \in cells(forest) :
           tree_at(forest, cell).height = (IF cell = <<1, 1>> THEN 1 ELSE 2)
    /\ tree_at(forest, <<1, 1>>).visibility = {}
    /\ tree_at(forest, <<0, 1>>).visibility = {"North"}
    /\ visible_trees = Some(8)

\* ---- the crates of a cargo
\* how many crates of a label a stack holds
crates_in(stack, crate_label) ==
    Cardinality({ k \in 1..Len(stack) : stack[k] = crate_label })
RECURSIVE crates_of(_, _)
\* how many crates of a label the stacks hold together
crates_of(stacks, crate_label) ==
    IF stacks = <<>> THEN 0
    ELSE crates_in(Head(stacks), crate_label) + crates_of(Tail(stacks), crate_label)
\* the stacks are as many as the cargo's and hold the same crates as often
conserves(stacks) ==
    /\ Len(stacks) = Len(cargo)
    /\ \A crate_label \in CrateLabels :
           crates_of(stacks, crate_label) = crates_of(cargo, crate_label)
returned_ok(outcome) == is_some(outcome) /\ is_some(unwrap(outcome).value)
cargo_of(outcome) == unwrap(unwrap(outcome).value)

\* C26: when apply_instructions_with_stacks (resp. _with_slices) returns Ok,
\* the returned cargo has as many stacks as the input cargo and the same
\* multiset of crates; the input cargo is never changed, whatever the call
\* returns.
C26_CratesConserved ==
    /\ [](/\ returned_ok(with_stacks) => conserves(cargo_of(with_stacks))
          /\ returned_ok(with_slices) => conserves(cargo_of(with_slices)))
    /\ [][cargo' = cargo]_vars
\* the crane has moved two crates at once from the first stack to the second
\* one, and one of them back
C26_Witness ==
    /\ pc = "returned"
    /\ cargo = <<<<"A", "B">>, <<>>>>
    /\ instructions_taken = 2
    /\ with_slices = Some(Ok(<<<<"B">>, <<"A">>>>))

\* C27: on the same cargo and instruction list the two functions return Ok
\* together or not at all; when they do, every stack holds the same crates as
\* often in both results, and the results are equal when no instruction moves
\* more than one crate.
C27_CranesRelatedAsClaimed ==
    pc = "returned" /\ is_some(with_stacks) /\ is_some(with_slices) =>
        /\ returned_ok(with_stacks) <=> returned_ok(with_slices)
        /\ returned_ok(with_stacks) /\ returned_ok(with_slices) =>
               /\ Len(cargo_of(with_stacks)) = Len(cargo_of(with_slices))
               /\ \A k \in 1..Len(cargo_of(with_stacks)) :
                      \A crate_label \in CrateLabels :
                          crates_in(cargo_of(with_stacks)[k], crate_label)
                              = crates_in(cargo_of(with_slices)[k], crate_label)
               /\ (\A k \in 1..Len(instructions) : instructions[k].amount <= 1)
                      => cargo_of(with_stacks) = cargo_of(with_slices)

both_returned == pc = "returned" /\ is_some(with_stacks) /\ is_some(with_slices)
both_ok == both_returned /\ returned_ok(with_stacks) /\ returned_ok(with_slices)
\* every instruction moves at least one crate, from a stack to another one
moves_between_stacks ==
    \A k \in 1..Len(instructions) :
        instructions[k].amount >= 1 /\ instructions[k].from # instructions[k].to

\* C27, amended: when apply_instructions_with_slices returns Ok so does
\* apply_instructions_with_stacks, and they return Ok together when every
\* instruction moves at least one crate between two different stacks.  When
\* both return Ok the results have as many stacks, every stack holds as many
\* crates in both, and the cargos hold the same crates as often; after a
\* single instruction every stack holds the same crates as often in both; the
\* results are equal when no instruction moves more than one crate.
C27_CranesRelated ==
    /\ both_returned /\ returned_ok(with_slices) => returned_ok(with_stacks)
    /\ both_returned /\ moves_between_stacks =>
           (returned_ok(with_stacks) <=> returned_ok(with_slices))
    /\ both_ok =>
           /\ Len(cargo_of(with_stacks)) = Len(cargo_of(with_slices))
           /\ \A k \in 1..Len(cargo_of(with_stacks)) :
                  Len(cargo_of(with_stacks)[k]) = Len(cargo_of(with_slices)[k])
           /\ \A crate_label \in CrateLabels :
                  crates_of(cargo_of(with_stacks), crate_label)
                      = crates_of(cargo_of(with_slices), crate_label)
    /\ both_ok /\ Len(instructions) <= 1 =>
           \A k \in 1..Len(cargo_of(with_stacks)) :
               \A crate_label \in CrateLabels :
                   crates_in(cargo_of(with_stacks)[k], crate_label)
                       = crates_in(cargo_of(with_slices)[k], crate_label)
    /\ both_ok /\ (\A k \in 1..Len(instructions) : instructions[k].amount <= 1) =>
           cargo_of(with_stacks) = cargo_of(with_slices)
\* two crates moved at once and one of them moved back: the cranes leave
\* different crates on each stack
C27_Witness ==
    /\ pc = "returned"
    /\ cargo = <<<<>>, <<"A", "B">>>>
    /\ instructions = <<Instruction(2, 2, 1), Instruction(1, 1, 2)>>
    /\ with_stacks = Some(Ok(<<<<"B">>, <<"A">>>>))
    /\ with_slices = Some(Ok(<<<<"A">>, <<"B">>>>))

====
